---- MODULE Spec2Model ----
(***************************************************************************)
(* A model of the spider manager: the State Store client                   *)
(* (redis_manager.py), the two-phase Crawl Engine (base_crawler.py), the   *)
(* Process Supervisor (adapters.py) and the Scheduler (scheduler.py).      *)
(*                                                                         *)
(* Spec     one Engine process at a time over the durable store: runs,     *)
(*          cooperative stops, hard kills, restarts, the daily job.        *)
(* SupSpec  the Supervisor's start()/stop() called from several threads.   *)
(* DailySpec, RecurSpec  the daily job and recurring mode.                 *)
(* FaultSpec  one run with unexpected failures inside the phases.          *)
(* StoreSpec  set_status and get_status command by command, outages.       *)
(* E2ESpec    the end-to-end scenario: sections of 30 and 10, page size 15.*)
(* DupSpec    the daily re-scan of a section crawled before.               *)
(* StartSpec  start(), the Engine it spawns and the liveness loop.         *)
(* StopSpec   one run with stop requests, pause and resume, scheduled      *)
(*            fairly.                                                      *)
(* RelaySpec  start(), the liveness loop and a run that fails.             *)
(* PauseSpec  the Supervisor with pause() and resume().                    *)
(* OutageSpec one run while the connection to the store comes and goes.    *)
(* ResetSpec  cleanup and reset_state at any time of a run.                *)
(* StatsSpec  get_stats and background refreshes from several threads.     *)
(* SchedSpec  the Scheduler's loop firing the task of the identity.         *)
(* CollectSpec  link collection over a long section, stops, a restart and  *)
(*            the daily re-scan.                                           *)
(* DetailsSpec  FaultSpec with Phase 2 scheduled fairly.                   *)
(* ErrorSpec  error records of the Engine and the store's error list.      *)
(* RestartSpec  a paused run, stopped or killed, and the run after it.     *)
(***************************************************************************)
EXTENDS Integers, Sequences, FiniteSets, TLC

(***************************************************************************)
(* Bounds of the model                                                     *)
(***************************************************************************)
\* page size of a list request in the small sites
PageSize == 1
\* number of items of the section that is scanned again, and its large page size
DupItems == 101
\* number of calls of pause() during a run
MaxPauses == 1
\* number of Engine processes launched one after the other
MaxRuns == 2
\* number of firings of the daily job
MaxFires == 2
\* number of items the source publishes while the model runs
MaxPublish == 2
\* the clock of the Scheduler stops at this time
MaxClock == 7
\* distance of two scheduled times of the task
Period == 3
\* number of calls each Supervisor thread, and each statistics thread, makes
MaxCalls == 2
\* the liveness loop writes while the version is below this
MaxVersion == 6
\* set_status calls begin while fewer than this have returned True
MaxWrites == 3

(***************************************************************************)
(* Program constants                                                       *)
(***************************************************************************)
\* base_crawler.py:485  if consecutive_errors >= 100
MAX_CONSECUTIVE_ERRORS == 100
\* base_crawler.py:375  if consecutive_empty >= 3
MAX_CONSECUTIVE_EMPTY == 3
\* base_crawler.py:600  max_duplicates=100
MAX_DUPLICATES == 100
\* base_crawler.py:438  if consecutive_duplicates >= 100 (pages without a new link)
MAX_DUPLICATE_PAGES == 100
\* base_crawler.py:103  PERPAGE: int = 15
DEFAULT_PERPAGE == 15
\* base_crawler.py:598  end_records=999999
SCHEDULED_END_RECORDS == 999999

(***************************************************************************)
(* The source site: per section (column), the URLs of its listing, newest  *)
(* first.  get_column_configs() gives each section its end_records.        *)
(***************************************************************************)
\* the site of Spec: a section of two items and a section of one
InitialSource == << <<1, 2>>, <<3>> >>
\* the site of DailySpec: two sections of one item
TwoSections == << <<1>>, <<2>> >>
\* the site of RecurSpec: one section of one item
SmallSource == << <<1>> >>
\* the site of FaultSpec: one section of three pages
ThreePages == << <<1, 2, 3>> >>
RECURSIVE SumLen(_, _)
SumLen(s, n) == IF n = 0 THEN 0 ELSE Len(s[n]) + SumLen(s, n - 1)
None == 0
NoReason == "none"

VARIABLES
  \* ---- State Store (Redis), per identity
  status,      \* spider:<id>:state  field status
  reason,      \* spider:<id>:state  field reason
  version,     \* spider:<id>:status_version
  paused,      \* spider:<id>:state  field paused
  errorMsg,    \* spider:<id>:state  field error
  lastPage,    \* spider:<id>:pagination  <column> -> last endrecord
  complete,    \* spider:<id>:pagination  <column>_complete
  visited,     \* spider:<id>:visited_urls
  crawled,     \* spider:<id>:crawled_urls
  queue,       \* spider:<id>:links_queue, index 1 = left end of the list
  \* ---- environment
  source,      \* the site's listings
  column_configs, \* get_column_configs(): column -> end_records
  PERPAGE,     \* BaseCrawler.PERPAGE, the page size of a list request (set per site)
  published,   \* items published so far
  runs,        \* Engine processes launched so far
  fires,       \* firings of the daily job so far
  \* ---- the Engine process (BaseCrawler instance and its position)
  crawler,
  \* ---- the last operation the Engine performed (what an observer sees)
  ev,
  \* ---- history of the run, kept for the properties
  hist,
  \* ---- Supervisor (SpiderAdapter instance, OS processes, calling threads)
  adapter,     \* the SpiderAdapter: process (pid of the Popen handle, or None),
               \* status, _stop_monitoring, and whether _monitor_thread is alive
  procs,       \* pids of the live OS processes of this identity
  nextPid,     \* the pid the next Popen gets
  thread,      \* calling thread -> its position in start()/stop() and its calls so far
  \* ---- clients of the store: the connection, callers of set_status, a reader
  client,
  \* ---- State Store, the other keys of the identity that exist: progress,
  \* errors, stats, url_queue, checkpoint, empty_content_urls
  keys,
  \* ---- SpiderManager: _refresh_lock (its holder, or "free"), whether the
  \* identity is in _refreshing, and the threads that ask for statistics
  manager,
  \* ---- Scheduler (TaskScheduler with one ScheduledTask of the identity): the
  \* clock, next_run, last_run, the task's status, the position of the loop
  task,
  \* ---- error records: the store's list `errors` and the field error_count of
  \* the state hash, the Engine's file <spider>_errors.log, and the errors the
  \* Engine has recorded since the last reset, kept for the properties
  errlog,
  \* ---- counts of a run, kept for the properties: list requests per section,
  \* the statuses stored one after the other
  tally

storeVars == <<status, reason, version, paused, errorMsg, lastPage, complete, visited, crawled, queue>>
envVars == <<source, column_configs, PERPAGE, published, runs, fires>>
Cols == DOMAIN source
NumCols == Len(source)
engineVars == <<crawler, ev, hist>>
supVars == <<adapter, procs, nextPid, thread>>
vars == <<storeVars, envVars, engineVars, supVars, client, keys, manager, task, errlog, tally>>

Range(s) == {s[i] : i \in 1..Len(s)}
Min(a, b) == IF a < b THEN a ELSE b

(***************************************************************************)
(* State Store client (SpiderRedisManager): every method returns its       *)
(* default, and writes nothing, when there is no client or a command raises *)
(* (client.up is FALSE)                                                     *)
(***************************************************************************)
\* a faulty write, which is taken for done although the store is away
StoredAnyway(old, new) == new
\* what a key holds after a write: the new value, or the old one when the
\* method returned at `if not self.client` or in its except clause
Stored(old, new) == IF client.up THEN new ELSE old

\* set_status: HSET merges the given fields (reason stays when not given), INCR version
set_status(st, rs) ==
  /\ status' = Stored(status, st)
  /\ reason' = Stored(reason, IF rs = NoReason THEN reason ELSE rs)
  /\ version' = Stored(version, version + 1)

\* a faulty push, at the end the pops take from (RPUSH): the newest record is
\* popped first
RPush(q, u) == Append(q, u)
\* push_to_links_queue: LPUSH
LPush(q, u) == <<u>> \o q
\* pop_from_links_queue: RPOP, the value and the rest
RPopValue(q) == q[Len(q)]
RPopRest(q) == SubSeq(q, 1, Len(q) - 1)

\* faulty membership tests, which never find the member
is_url_visited_never(u) == FALSE
is_url_crawled_never(u) == FALSE
is_pagination_complete_never(c) == FALSE
is_url_visited(u) == client.up /\ u \in visited
is_url_crawled(u) == client.up /\ u \in crawled
is_pagination_complete(c) == client.up /\ complete[c]
get_last_pagination_page(c) == IF client.up THEN lastPage[c] ELSE 0
get_links_queue_size == IF client.up THEN Len(queue) ELSE 0
has_pending_links == get_links_queue_size > 0
is_paused == client.up /\ paused

\* a faulty test, which is content with one complete section
SomePaginationComplete == \E c \in Cols : is_pagination_complete(c)
\* _is_all_pagination_complete / has_incomplete_pagination
AllPaginationComplete == \A c \in Cols : is_pagination_complete(c)
HasIncompletePagination == \E c \in Cols : ~is_pagination_complete(c)

(***************************************************************************)
(* Crawl Engine (BaseCrawler)                                              *)
(***************************************************************************)
\* a process that is not running: no volatile state
NoCrawler ==
  [alive |-> FALSE, pc |-> "none", should_stop |-> FALSE, should_pause |-> FALSE,
   stop_on_duplicates |-> FALSE, caller |-> "none", col |-> 0, end_records |-> 0,
   startrecord |-> 0, endrecord |-> 0, consecutive_empty |-> 0,
   consecutive_duplicates |-> 0, links_count |-> 0, items_count |-> 0,
   page |-> <<>>, link |-> None, consecutive_errors |-> 0, success |-> TRUE,
   waiting |-> FALSE]

Ev(op, u, c, n) == [op |-> op, url |-> u, col |-> c, n |-> n]
Quiet == Ev("none", None, 0, 0)

\* a faulty pause check, which never holds the Engine
PauseOverAlways == TRUE
\* a faulty pause wait, which only a resume ends
PauseOverOnResume == ~(crawler.should_pause \/ is_paused)
\* _check_pause returns: not paused, or stop requested
PauseOver == ~(crawler.should_pause \/ is_paused) \/ crawler.should_stop

\* the locals of _collect_column_links, out of scope
NoCollect(k) ==
  [k EXCEPT !.stop_on_duplicates = FALSE,
            !.end_records = 0, !.startrecord = 0, !.endrecord = 0,
            !.consecutive_empty = 0, !.consecutive_duplicates = 0,
            !.links_count = 0, !.items_count = 0, !.page = <<>>]

\* a faulty page, which lacks its last item
PageOfWithoutLast(c, startrecord, endrecord) ==
  SubSeq(source[c], startrecord + 1, Min(endrecord, Len(source[c])) - 1)
\* the items a list request for records startrecord+1..endrecord returns
PageOf(c, startrecord, endrecord) ==
  SubSeq(source[c], startrecord + 1, Min(endrecord, Len(source[c])))

\* OS: a fresh Engine process; __init__
Launch ==
  /\ ~crawler.alive
  /\ runs < MaxRuns
  /\ runs' = runs + 1
  /\ crawler' = [NoCrawler EXCEPT !.alive = TRUE, !.pc = "run"]
  /\ ev' = Ev("launch", None, 0, 0)
  /\ UNCHANGED <<storeVars, source, column_configs, PERPAGE, published, fires>>

\* run(), lines 202-212
RunStart ==
  /\ crawler.alive /\ crawler.pc = "run"
  /\ crawler' = [crawler EXCEPT !.should_stop = FALSE, !.should_pause = FALSE,
                                !.pc = "run_check"]
  /\ set_status("running", NoReason)
  /\ ev' = Quiet
  /\ UNCHANGED <<paused, errorMsg, lastPage, complete, visited, crawled, queue, envVars>>

\* run(), lines 214-217: caught up already, enter recurring mode (_start_scheduler)
RunCaughtUp ==
  /\ crawler.alive /\ crawler.pc = "run_check"
  /\ AllPaginationComplete /\ ~has_pending_links
  /\ crawler' = [crawler EXCEPT !.pc = "sched"]
  /\ ev' = Ev("recurring", None, 0, 0)
  /\ UNCHANGED <<storeVars, envVars>>

\* run(), lines 219-221: some section is not complete, Phase 1
RunCollect ==
  /\ crawler.alive /\ crawler.pc = "run_check"
  /\ ~(AllPaginationComplete /\ ~has_pending_links)
  /\ HasIncompletePagination
  /\ crawler' = [crawler EXCEPT !.pc = "p1_col", !.col = 1]
  /\ ev' = Quiet
  /\ UNCHANGED <<storeVars, envVars>>

\* run(), line 219 false: every section complete, links pending
RunNoCollect ==
  /\ crawler.alive /\ crawler.pc = "run_check"
  /\ ~(AllPaginationComplete /\ ~has_pending_links)
  /\ ~HasIncompletePagination
  /\ crawler' = [crawler EXCEPT !.pc = "after_p1"]
  /\ ev' = Quiet
  /\ UNCHANGED <<storeVars, envVars>>

\* _collect_links_phase, lines 290-292 and the end of the for loop
P1Done ==
  /\ crawler.alive /\ crawler.pc = "p1_col"
  /\ crawler.col > NumCols \/ crawler.should_stop
  /\ crawler' = [crawler EXCEPT !.pc = "after_p1", !.col = 0]
  /\ ev' = Quiet
  /\ UNCHANGED <<storeVars, envVars>>

\* _collect_links_phase, lines 294-296: a complete section is skipped
P1Skip ==
  /\ crawler.alive /\ crawler.pc = "p1_col"
  /\ crawler.col <= NumCols /\ ~crawler.should_stop
  /\ is_pagination_complete(crawler.col)
  /\ crawler' = [crawler EXCEPT !.col = @ + 1]
  /\ ev' = Ev("skip_section", None, crawler.col, 0)
  /\ UNCHANGED <<storeVars, envVars>>

\* _collect_links_phase, lines 298-307, and _collect_column_links, lines 328-336
P1Enter ==
  /\ crawler.alive /\ crawler.pc = "p1_col"
  /\ crawler.col <= NumCols /\ ~crawler.should_stop
  /\ ~is_pagination_complete(crawler.col)
  /\ set_status("running", NoReason)
  /\ crawler' = [crawler EXCEPT !.pc = "cl_loop", !.stop_on_duplicates = FALSE,
                   !.end_records = column_configs[crawler.col].end_records,
                   !.startrecord = get_last_pagination_page(crawler.col),
                   !.endrecord = get_last_pagination_page(crawler.col),
                   !.consecutive_empty = 0, !.consecutive_duplicates = 0,
                   !.links_count = 0, !.items_count = 0, !.page = <<>>]
  /\ ev' = Quiet
  /\ UNCHANGED <<paused, errorMsg, lastPage, complete, visited, crawled, queue, envVars>>

\* a faulty loop test, which asks for one more page at the end of the range
CollectLeavesLate ==
  \/ ~(crawler.stop_on_duplicates \/ crawler.endrecord <= crawler.end_records)
  \/ crawler.should_stop
  \/ /\ PauseOver
     /\ crawler.stop_on_duplicates
     /\ crawler.consecutive_duplicates >= MAX_DUPLICATES
\* _collect_column_links, lines 338-348: the ways out of the while loop at its top
CollectLeaves ==
  \/ ~(crawler.stop_on_duplicates \/ crawler.endrecord < crawler.end_records)
  \/ crawler.should_stop
  \/ /\ PauseOver
     /\ crawler.stop_on_duplicates
     /\ crawler.consecutive_duplicates >= MAX_DUPLICATES

CollectExit ==
  /\ crawler.alive /\ crawler.pc = "cl_loop"
  /\ CollectLeaves
  /\ crawler' = [crawler EXCEPT !.pc = "cl_ret"]
  /\ ev' = Quiet
  /\ UNCHANGED <<storeVars, envVars>>


\* a faulty request, which asks for the page before once more
ListRequestAgain ==
  /\ crawler.alive /\ crawler.pc = "cl_loop"
  /\ ~CollectLeaves /\ PauseOver
  /\ crawler' = [crawler EXCEPT !.pc = "cl_req",
                   !.endrecord = Min(crawler.startrecord + PERPAGE, crawler.end_records),
                   !.links_count = 0, !.items_count = 0]
  /\ ev' = Ev("list_request", None, crawler.col, crawler.startrecord)
  /\ UNCHANGED <<storeVars, envVars>>

\* _collect_column_links, lines 350-369: the next page is requested
ListRequest ==
  /\ crawler.alive /\ crawler.pc = "cl_loop"
  /\ ~CollectLeaves /\ PauseOver
  /\ crawler' = [crawler EXCEPT !.pc = "cl_req",
                   !.startrecord = crawler.endrecord,
                   !.endrecord = Min(crawler.endrecord + PERPAGE, crawler.end_records),
                   !.links_count = 0, !.items_count = 0]
  /\ ev' = Ev("list_request", None, crawler.col, crawler.endrecord)
  /\ UNCHANGED <<storeVars, envVars>>

\* a faulty failure count, which gives up one failed request late
ListFailLate ==
  /\ crawler.alive /\ crawler.pc = "cl_req"
  /\ crawler' = [crawler EXCEPT
                   !.consecutive_empty = @ + 1,
                   !.pc = IF crawler.consecutive_empty + 1 > MAX_CONSECUTIVE_EMPTY
                          THEN "cl_ret" ELSE "cl_after"]
  /\ ev' = Ev("list_failed", None, crawler.col, crawler.startrecord)
  /\ UNCHANGED <<storeVars, envVars>>

\* _collect_column_links, lines 371-377 and 412-417: no response, not 200, or an exception
ListFail ==
  /\ crawler.alive /\ crawler.pc = "cl_req"
  /\ crawler' = [crawler EXCEPT
                   !.consecutive_empty = @ + 1,
                   !.pc = IF crawler.consecutive_empty + 1 >= MAX_CONSECUTIVE_EMPTY
                          THEN "cl_ret" ELSE "cl_after"]
  /\ ev' = Ev("list_failed", None, crawler.col, crawler.startrecord)
  /\ UNCHANGED <<storeVars, envVars>>

\* _collect_column_links, lines 379-381: the page's items
ListOk ==
  /\ crawler.alive /\ crawler.pc = "cl_req"
  /\ LET items == PageOf(crawler.col, crawler.startrecord, crawler.endrecord)
     IN crawler' = [crawler EXCEPT !.pc = "cl_item", !.page = items,
                      !.items_count = Len(items), !.links_count = 0]
  /\ ev' = Ev("list_ok", None, crawler.col, crawler.startrecord)
  /\ UNCHANGED <<storeVars, envVars>>

\* _collect_column_links, lines 383-389 and 410: the for loop ends or is left on stop
ItemsDone ==
  /\ crawler.alive /\ crawler.pc = "cl_item"
  /\ crawler.page = <<>> \/ crawler.should_stop
  /\ crawler' = [crawler EXCEPT !.pc = "cl_after", !.page = <<>>,
                   !.consecutive_empty = 0]
  /\ ev' = Quiet
  /\ UNCHANGED <<storeVars, envVars>>

\* a faulty duplicate count, which does not leave the page at the limit
ItemVisitedNoLimit ==
  /\ crawler.alive /\ crawler.pc = "cl_item"
  /\ crawler.page # <<>> /\ ~crawler.should_stop /\ PauseOver
  /\ is_url_visited(Head(crawler.page))
  /\ crawler' =
       IF crawler.stop_on_duplicates
       THEN [crawler EXCEPT !.consecutive_duplicates = @ + 1, !.page = Tail(@)]
       ELSE [crawler EXCEPT !.page = Tail(@)]
  /\ ev' = Ev("duplicate", Head(crawler.page), crawler.col, 0)
  /\ UNCHANGED <<storeVars, envVars>>

\* _collect_column_links, lines 391-399: the URL is visited already
ItemVisited ==
  /\ crawler.alive /\ crawler.pc = "cl_item"
  /\ crawler.page # <<>> /\ ~crawler.should_stop /\ PauseOver
  /\ is_url_visited(Head(crawler.page))
  /\ crawler' =
       IF crawler.stop_on_duplicates
       THEN IF crawler.consecutive_duplicates + 1 >= MAX_DUPLICATES
            THEN [crawler EXCEPT !.consecutive_duplicates = @ + 1, !.page = <<>>,
                                 !.consecutive_empty = 0, !.pc = "cl_after"]
            ELSE [crawler EXCEPT !.consecutive_duplicates = @ + 1, !.page = Tail(@)]
       ELSE [crawler EXCEPT !.page = Tail(@)]
  /\ ev' = Ev("duplicate", Head(crawler.page), crawler.col, 0)
  /\ UNCHANGED <<storeVars, envVars>>

\* _collect_column_links, lines 401-405: a new URL, its record is pushed
ItemPush ==
  /\ crawler.alive /\ crawler.pc = "cl_item"
  /\ crawler.page # <<>> /\ ~crawler.should_stop /\ PauseOver
  /\ ~is_url_visited(Head(crawler.page))
  /\ queue' = Stored(queue, LPush(queue, Head(crawler.page)))
  /\ crawler' = [crawler EXCEPT !.consecutive_duplicates = 0, !.pc = "cl_mark"]
  /\ ev' = Ev("collect_push", Head(crawler.page), crawler.col, 0)
  /\ UNCHANGED <<status, reason, version, paused, errorMsg, lastPage, complete, visited, crawled,
                 envVars>>

\* _collect_column_links, lines 406-408: then it is marked visited
ItemMark ==
  /\ crawler.alive /\ crawler.pc = "cl_mark"
  /\ visited' = Stored(visited, visited \cup {Head(crawler.page)})
  /\ crawler' = [crawler EXCEPT !.links_count = @ + 1, !.page = Tail(@),
                                !.pc = "cl_item"]
  /\ ev' = Ev("mark_visited", Head(crawler.page), crawler.col, 0)
  /\ UNCHANGED <<status, reason, version, paused, errorMsg, lastPage, complete, crawled, queue,
                 envVars>>

\* a faulty checkpoint, which a re-scan writes as well
AfterPageAlways ==
  /\ crawler.alive /\ crawler.pc = "cl_after"
  /\ lastPage' = IF FALSE THEN lastPage
                 ELSE Stored(lastPage, [lastPage EXCEPT ![crawler.col] = crawler.endrecord])
  /\ LET nothingNew == crawler.links_count = 0 /\ crawler.items_count > 0
     IN crawler' =
          IF crawler.should_stop THEN [crawler EXCEPT !.pc = "cl_ret"]
          ELSE IF crawler.stop_on_duplicates
          THEN [crawler EXCEPT !.pc = IF nothingNew \/ crawler.items_count = 0
                                      THEN "cl_ret" ELSE "cl_loop"]
          ELSE IF nothingNew
          THEN [crawler EXCEPT
                  !.consecutive_duplicates = @ + 1,
                  !.pc = IF crawler.consecutive_duplicates + 1 >= MAX_DUPLICATE_PAGES
                         THEN "cl_ret" ELSE "cl_loop"]
          ELSE [crawler EXCEPT !.consecutive_duplicates = 0, !.pc = "cl_loop"]
  /\ ev' = Ev("checkpoint", None, crawler.col, crawler.endrecord)
  /\ UNCHANGED <<status, reason, version, paused, errorMsg, complete, visited, crawled, queue,
                 envVars>>

\* _collect_column_links, lines 419-445: the checkpoint and the ways out after a page
AfterPage ==
  /\ crawler.alive /\ crawler.pc = "cl_after"
  /\ lastPage' = IF crawler.stop_on_duplicates THEN lastPage
                 ELSE Stored(lastPage, [lastPage EXCEPT ![crawler.col] = crawler.endrecord])
  /\ LET nothingNew == crawler.links_count = 0 /\ crawler.items_count > 0
     IN crawler' =
          IF crawler.should_stop THEN [crawler EXCEPT !.pc = "cl_ret"]
          ELSE IF crawler.stop_on_duplicates
          THEN [crawler EXCEPT !.pc = IF nothingNew \/ crawler.items_count = 0
                                      THEN "cl_ret" ELSE "cl_loop"]
          ELSE IF nothingNew
          THEN [crawler EXCEPT
                  !.consecutive_duplicates = @ + 1,
                  !.pc = IF crawler.consecutive_duplicates + 1 >= MAX_DUPLICATE_PAGES
                         THEN "cl_ret" ELSE "cl_loop"]
          ELSE [crawler EXCEPT !.consecutive_duplicates = 0, !.pc = "cl_loop"]
  /\ ev' = Ev("checkpoint", None, crawler.col, crawler.endrecord)
  /\ UNCHANGED <<status, reason, version, paused, errorMsg, complete, visited, crawled, queue,
                 envVars>>

\* _collect_links_phase, lines 307-311: back from the section, it is marked complete
P1MarkComplete ==
  /\ crawler.alive /\ crawler.pc = "cl_ret" /\ ~crawler.stop_on_duplicates
  /\ complete' = Stored(complete, [complete EXCEPT ![crawler.col] = TRUE])
  /\ crawler' = [NoCollect(crawler) EXCEPT !.pc = "p1_col", !.col = @ + 1]
  /\ ev' = Ev("mark_complete", None, crawler.col, 0)
  /\ UNCHANGED <<status, reason, version, paused, errorMsg, lastPage, visited, crawled, queue,
                 envVars>>

\* _scheduled_crawl_links, lines 595-604: back from the section, the next one
ScNextColumn ==
  /\ crawler.alive /\ crawler.pc = "cl_ret" /\ crawler.stop_on_duplicates
  /\ crawler' = [NoCollect(crawler) EXCEPT !.pc = "sc_col", !.col = @ + 1]
  /\ ev' = Quiet
  /\ UNCHANGED <<storeVars, envVars>>

\* run(), lines 223-225: stop was requested during Phase 1
RunStopped ==
  /\ crawler.alive /\ crawler.pc = "after_p1"
  /\ crawler.should_stop
  /\ crawler' = [crawler EXCEPT !.pc = "finally"]
  /\ ev' = Quiet
  /\ UNCHANGED <<storeVars, envVars>>

\* _crawl_details_phase is entered (line 456), called from `from`
EnterDetails(k, from) ==
  [k EXCEPT !.pc = "p2_loop", !.caller = from, !.consecutive_errors = 0, !.link = None]

\* where _crawl_details_phase returns to: run() line 233, job() (the scheduler loop,
\* line 565) or _scheduled_crawl_links line 615
ReturnPc(from) ==
  CASE from = "run" -> "completed"
    [] from = "job" -> "sched"
    [] from = "scheduled" -> "sc_done"

LeaveDetails(k) ==
  [k EXCEPT !.pc = ReturnPc(k.caller), !.caller = "none", !.consecutive_errors = 0,
            !.link = None]

\* run(), lines 227-229: links are pending, Phase 2
RunDetails ==
  /\ crawler.alive /\ crawler.pc = "after_p1"
  /\ ~crawler.should_stop /\ has_pending_links
  /\ crawler' = EnterDetails(crawler, "run")
  /\ ev' = Ev("details", None, 0, 0)
  /\ UNCHANGED <<storeVars, envVars>>

\* run(), lines 230-231: nothing is pending
RunNoDetails ==
  /\ crawler.alive /\ crawler.pc = "after_p1"
  /\ ~crawler.should_stop /\ ~has_pending_links
  /\ crawler' = [crawler EXCEPT !.pc = "completed"]
  /\ ev' = Quiet
  /\ UNCHANGED <<storeVars, envVars>>

\* _crawl_details_phase, lines 458-461: the queue is empty or stop was requested
DetailsExit ==
  /\ crawler.alive /\ crawler.pc = "p2_loop"
  /\ ~has_pending_links \/ crawler.should_stop
  /\ crawler' = LeaveDetails(crawler)
  /\ ev' = Quiet
  /\ UNCHANGED <<storeVars, envVars>>

\* _crawl_details_phase, lines 463-470: the head record is popped; crawled already, dropped
PopDrop ==
  /\ crawler.alive /\ crawler.pc = "p2_loop"
  /\ has_pending_links /\ ~crawler.should_stop /\ PauseOver
  /\ is_url_crawled(RPopValue(queue))
  /\ queue' = RPopRest(queue)
  /\ ev' = Ev("pop_drop", RPopValue(queue), 0, 0)
  /\ UNCHANGED <<status, reason, version, paused, errorMsg, lastPage, complete, visited, crawled,
                 envVars, crawler>>

\* _crawl_details_phase, lines 463-472: the head record is popped and its fetch begins
PopFetch ==
  /\ crawler.alive /\ crawler.pc = "p2_loop"
  /\ has_pending_links /\ ~crawler.should_stop /\ PauseOver
  /\ ~is_url_crawled(RPopValue(queue))
  /\ queue' = RPopRest(queue)
  /\ crawler' = [crawler EXCEPT !.pc = "p2_fetch", !.link = RPopValue(queue)]
  /\ ev' = Ev("pop_fetch", RPopValue(queue), 0, 0)
  /\ UNCHANGED <<status, reason, version, paused, errorMsg, lastPage, complete, visited, crawled,
                 envVars>>

\* _crawl_details_phase, lines 474-478: crawl_detail_page returned True
FetchSuccess ==
  /\ crawler.alive /\ crawler.pc = "p2_fetch"
  /\ crawled' = Stored(crawled, crawled \cup {crawler.link})
  /\ crawler' = [crawler EXCEPT !.pc = "p2_loop", !.consecutive_errors = 0,
                                !.link = None]
  /\ ev' = Ev("success", crawler.link, 0, crawler.consecutive_errors)
  /\ UNCHANGED <<status, reason, version, paused, errorMsg, lastPage, complete, visited, queue,
                 envVars>>

\* a faulty Skip, which leaves consecutive_errors as it is
FetchSkipKeepsCount ==
  /\ crawler.alive /\ crawler.pc = "p2_fetch"
  /\ crawler' = [crawler EXCEPT !.pc = "p2_loop", !.link = None]
  /\ ev' = Ev("skip", crawler.link, 0, crawler.consecutive_errors)
  /\ UNCHANGED <<storeVars, envVars>>

\* _crawl_details_phase, lines 479-482: crawl_detail_page returned None
FetchSkip ==
  /\ crawler.alive /\ crawler.pc = "p2_fetch"
  /\ crawler' = [crawler EXCEPT !.pc = "p2_loop", !.consecutive_errors = 0,
                                !.link = None]
  /\ ev' = Ev("skip", crawler.link, 0, crawler.consecutive_errors)
  /\ UNCHANGED <<storeVars, envVars>>

\* _crawl_details_phase, lines 483-497: crawl_detail_page failed, below the limit:
\* the record is pushed again
FetchFailRetry ==
  /\ crawler.alive /\ crawler.pc = "p2_fetch"
  /\ crawler.consecutive_errors + 1 < MAX_CONSECUTIVE_ERRORS
  /\ queue' = Stored(queue, LPush(queue, crawler.link))
  /\ crawler' = [crawler EXCEPT !.pc = "p2_loop", !.consecutive_errors = @ + 1,
                                !.link = None]
  /\ ev' = Ev("fail", crawler.link, 0, crawler.consecutive_errors + 1)
  /\ UNCHANGED <<status, reason, version, paused, errorMsg, lastPage, complete, visited, crawled,
                 envVars>>

\* a faulty breaker, which takes the 100th failure for a Skip and pushes the
\* record again
FetchFailNoTrip ==
  /\ crawler.alive /\ crawler.pc = "p2_fetch"
  /\ crawler.consecutive_errors + 1 >= MAX_CONSECUTIVE_ERRORS
  /\ queue' = Stored(queue, LPush(queue, crawler.link))
  /\ crawler' = [crawler EXCEPT !.pc = "p2_loop", !.consecutive_errors = 0,
                                !.link = None]
  /\ ev' = Ev("skip", crawler.link, 0, crawler.consecutive_errors)
  /\ UNCHANGED <<status, reason, version, paused, errorMsg, lastPage, complete, visited, crawled,
                 envVars>>

\* _crawl_details_phase, lines 483-494: crawl_detail_page failed, the limit is reached
FetchFailTrip ==
  /\ crawler.alive /\ crawler.pc = "p2_fetch"
  /\ crawler.consecutive_errors + 1 >= MAX_CONSECUTIVE_ERRORS
  /\ set_status("stopped", "too_many_errors")
  /\ crawler' = LeaveDetails(crawler)
  /\ ev' = Ev("trip", crawler.link, 0, crawler.consecutive_errors + 1)
  /\ UNCHANGED <<paused, errorMsg, lastPage, complete, visited, crawled, queue, envVars>>

\* run(), lines 233-246: not stopped: status completed, then recurring mode or return
RunCompleted ==
  /\ crawler.alive /\ crawler.pc = "completed"
  /\ ~crawler.should_stop
  /\ set_status("stopped", "completed")
  /\ crawler' = [crawler EXCEPT
                   !.pc = IF AllPaginationComplete /\ ~has_pending_links
                          THEN "sched" ELSE "finally"]
  /\ ev' = IF AllPaginationComplete /\ ~has_pending_links
           THEN Ev("recurring", None, 0, 0) ELSE Quiet
  /\ UNCHANGED <<paused, errorMsg, lastPage, complete, visited, crawled, queue, envVars>>

\* run(), line 233 false: stop was requested during Phase 2
RunNotCompleted ==
  /\ crawler.alive /\ crawler.pc = "completed"
  /\ crawler.should_stop
  /\ crawler' = [crawler EXCEPT !.pc = "finally"]
  /\ ev' = Quiet
  /\ UNCHANGED <<storeVars, envVars>>

\* _start_scheduler, lines 565-570: the loop ends on stop; run() returns True
SchedulerExit ==
  /\ crawler.alive /\ crawler.pc = "sched"
  /\ crawler.should_stop
  /\ crawler' = [crawler EXCEPT !.pc = "finally"]
  /\ ev' = Quiet
  /\ UNCHANGED <<storeVars, envVars>>

\* job(), lines 552-554, and _scheduled_crawl_links, lines 579-584: 08:00, caught up
JobRescan ==
  /\ crawler.alive /\ crawler.pc = "sched"
  /\ ~crawler.should_stop
  /\ fires < MaxFires
  /\ AllPaginationComplete /\ ~has_pending_links
  /\ fires' = fires + 1
  /\ set_status("running", NoReason)
  /\ crawler' = [crawler EXCEPT !.pc = "sc_col", !.col = 1]
  /\ ev' = Ev("job", None, 0, 0)
  /\ UNCHANGED <<paused, errorMsg, lastPage, complete, visited, crawled, queue, source,
                 column_configs, PERPAGE, published, runs>>

\* job(), lines 555-559: 08:00, links are pending (Phase 2), or a section is incomplete
JobOther ==
  /\ crawler.alive /\ crawler.pc = "sched"
  /\ ~crawler.should_stop
  /\ fires < MaxFires
  /\ ~(AllPaginationComplete /\ ~has_pending_links)
  /\ fires' = fires + 1
  /\ crawler' = IF has_pending_links THEN EnterDetails(crawler, "job") ELSE crawler
  /\ ev' = IF has_pending_links THEN Ev("details", None, 0, 0) ELSE Ev("job", None, 0, 0)
  /\ UNCHANGED <<storeVars, source, column_configs, PERPAGE, published, runs>>

\* _scheduled_crawl_links, lines 585-587 and the end of the for loop
ScDoneColumns ==
  /\ crawler.alive /\ crawler.pc = "sc_col"
  /\ crawler.col > NumCols \/ crawler.should_stop
  /\ crawler' = [crawler EXCEPT !.pc = "sc_after", !.col = 0]
  /\ ev' = Quiet
  /\ UNCHANGED <<storeVars, envVars>>

\* _scheduled_crawl_links, lines 589-602, and _collect_column_links, lines 328-336
ScEnter ==
  /\ crawler.alive /\ crawler.pc = "sc_col"
  /\ crawler.col <= NumCols /\ ~crawler.should_stop
  /\ set_status("running", NoReason)
  /\ crawler' = [crawler EXCEPT !.pc = "cl_loop", !.stop_on_duplicates = TRUE,
                   !.end_records = SCHEDULED_END_RECORDS,
                   !.startrecord = 0, !.endrecord = 0,
                   !.consecutive_empty = 0, !.consecutive_duplicates = 0,
                   !.links_count = 0, !.items_count = 0, !.page = <<>>]
  /\ ev' = Quiet
  /\ UNCHANGED <<paused, errorMsg, lastPage, complete, visited, crawled, queue, envVars>>

\* _scheduled_crawl_links, lines 606-613
ScAfter ==
  /\ crawler.alive /\ crawler.pc = "sc_after"
  /\ set_status("running", NoReason)
  /\ crawler' = IF has_pending_links
                THEN EnterDetails(crawler, "scheduled")
                ELSE [crawler EXCEPT !.pc = "sc_done"]
  /\ ev' = IF has_pending_links THEN Ev("details", None, 0, 0) ELSE Quiet
  /\ UNCHANGED <<paused, errorMsg, lastPage, complete, visited, crawled, queue, envVars>>

\* _scheduled_crawl_links, lines 615-621; back in the scheduler loop
ScDone ==
  /\ crawler.alive /\ crawler.pc = "sc_done"
  /\ set_status("stopped", "scheduled_completed")
  /\ crawler' = [crawler EXCEPT !.pc = "sched"]
  /\ ev' = Quiet
  /\ UNCHANGED <<paused, errorMsg, lastPage, complete, visited, crawled, queue, envVars>>

\* an unexpected failure (an exception) inside run()'s try block, outside the
\* try of _collect_column_links
RaisePcs ==
  {"run_check", "p1_col", "cl_loop", "cl_after", "cl_ret", "after_p1", "p2_loop",
   "p2_fetch", "completed", "sched", "sc_col", "sc_after", "sc_done"}

PhaseRaises ==
  /\ crawler.alive /\ crawler.pc \in RaisePcs
  /\ crawler' = [NoCollect(crawler) EXCEPT !.pc = "except", !.link = None,
                                           !.consecutive_errors = 0]
  /\ ev' = Ev("raise", crawler.link, 0, 0)
  /\ UNCHANGED <<storeVars, envVars>>

\* a faulty handler, which writes no status
RunExceptSilent ==
  /\ crawler.alive /\ crawler.pc = "except"
  /\ crawler' = [crawler EXCEPT !.pc = "finally", !.success = FALSE]
  /\ ev' = Ev("caught", None, 0, 0)
  /\ UNCHANGED <<storeVars, envVars>>

\* run(), lines 249-253: the failure is caught, status error with its message; False
RunExcept ==
  /\ crawler.alive /\ crawler.pc = "except"
  /\ set_status("error", NoReason)
  /\ errorMsg' = Stored(errorMsg, "error_msg")
  /\ crawler' = [crawler EXCEPT !.pc = "finally", !.success = FALSE]
  /\ ev' = Ev("caught", None, 0, 0)
  /\ UNCHANGED <<paused, lastPage, complete, visited, crawled, queue, envVars>>

\* run(), lines 255-265, then main() exits
RunFinally ==
  /\ crawler.alive /\ crawler.pc = "finally"
  /\ IF crawler.should_stop
     THEN set_status("stopped", "user_stopped")
     ELSE UNCHANGED <<status, reason, version>>
  /\ crawler' = [NoCrawler EXCEPT !.pc = "exited"]
  /\ ev' = Ev("exit", None, 0, IF crawler.success THEN 0 ELSE 1)
  /\ UNCHANGED <<paused, errorMsg, lastPage, complete, visited, crawled, queue, envVars>>

\* _signal_handler, lines 134-137 (SIGTERM, SIGINT), and stop(), line 269
Signal ==
  /\ crawler.alive /\ ~crawler.should_stop
  /\ crawler' = [crawler EXCEPT !.should_stop = TRUE]
  /\ UNCHANGED <<storeVars, envVars, ev>>

\* a status that differs from the last one is recorded
StatusPath ==
  IF status' # tally.path[Len(tally.path)].status
  THEN Append(tally.path, [status |-> status', reason |-> reason'])
  ELSE tally.path

\* pause(), lines 271-275, called while run() is under way
Pause ==
  /\ crawler.alive /\ crawler.pc # "run"
  /\ tally.pauses < MaxPauses
  /\ crawler' = [crawler EXCEPT !.should_pause = TRUE]
  /\ paused' = Stored(paused, TRUE)
  /\ set_status("paused", NoReason)
  /\ tally' = [tally EXCEPT !.pauses = @ + 1, !.path = StatusPath]
  /\ UNCHANGED <<errorMsg, lastPage, complete, visited, crawled, queue, envVars, ev>>

\* _check_pause, lines 139-146, called at lines 342, 387 and 459: paused, the
\* Engine enters the wait and polls once a second
PauseWait ==
  /\ crawler.alive /\ ~crawler.waiting
  /\ \/ /\ crawler.pc = "cl_loop"
        /\ crawler.stop_on_duplicates \/ crawler.endrecord < crawler.end_records
     \/ crawler.pc = "cl_item" /\ crawler.page # <<>>
     \/ crawler.pc = "p2_loop" /\ has_pending_links
  /\ ~crawler.should_stop
  /\ crawler.should_pause \/ is_paused
  /\ crawler' = [crawler EXCEPT !.waiting = TRUE]
  /\ ev' = Ev("pause_wait", None, 0, 0)
  /\ UNCHANGED <<storeVars, envVars>>

\* _check_pause, lines 141-146: the wait ends, resumed or stopped
PauseWake ==
  /\ crawler.alive /\ crawler.waiting
  /\ PauseOver
  /\ crawler' = [crawler EXCEPT !.waiting = FALSE]
  /\ ev' = Quiet
  /\ UNCHANGED <<storeVars, envVars>>

\* resume(), lines 277-280
Resume ==
  /\ crawler.alive /\ crawler.pc # "run"
  /\ crawler.should_pause \/ is_paused
  /\ crawler' = [crawler EXCEPT !.should_pause = FALSE]
  /\ paused' = Stored(paused, FALSE)
  /\ set_status("running", NoReason)
  /\ tally' = [tally EXCEPT !.path = StatusPath]
  /\ UNCHANGED <<errorMsg, lastPage, complete, visited, crawled, queue, envVars, ev>>

\* OS: the process is killed (Popen.kill), whatever it was doing
Kill ==
  /\ crawler.alive
  /\ crawler' = [NoCrawler EXCEPT !.pc = "killed"]
  /\ ev' = Ev("kill", crawler.link, 0,
             IF crawler.pc \in {"p2_loop", "p2_fetch"} THEN 2 ELSE 0)
  /\ UNCHANGED <<storeVars, envVars>>

\* the site publishes a new item at the head of a section's listing
Publish ==
  /\ published < MaxPublish
  /\ \E c \in Cols :
       source' = [source EXCEPT ![c] = <<SumLen(source, NumCols) + 1>> \o @]
  /\ published' = published + 1
  /\ UNCHANGED <<storeVars, column_configs, PERPAGE, runs, fires, crawler, ev>>

(***************************************************************************)
(* Process Supervisor (NHSASpiderAdapter; WJWSpiderAdapter is the same)    *)
(* and the Scheduler thread (ScheduledTask.execute calls start)            *)
(***************************************************************************)
\* the threads that call the adapter: a request handler of the API, and the
\* TaskScheduler's thread
Threads == {"api", "scheduler"}

\* SpiderAdapter.__init__ and NHSASpiderAdapter.__init__
NoAdapter ==
  [process |-> None, status |-> "idle", stop_monitoring |-> FALSE,
   monitor_alive |-> FALSE]

\* self.process and self.process.poll() is None
ProcessAlive == adapter.process # None /\ adapter.process \in procs

Goto(t, where) == thread' = [thread EXCEPT ![t].pc = where]
Return(t, r) ==
  thread' = [thread EXCEPT ![t].pc = "idle", ![t].calls = @ + 1, ![t].ret = r,
                          ![t].from = thread[t].pc]
engineSide == <<paused, errorMsg, lastPage, complete, visited, crawled, queue, envVars, engineVars, client, keys, manager, task, errlog>>

\* a faulty start(), which goes on although a process is alive
StartRefusedGoesOn(t) ==
  /\ thread[t].pc = "idle" /\ thread[t].calls < MaxCalls
  /\ ProcessAlive
  /\ Goto(t, "start_status")
  /\ UNCHANGED <<adapter, procs, nextPid, status, reason, version, engineSide>>

\* start(), lines 175-176: a live process, return False
StartRefused(t) ==
  /\ thread[t].pc = "idle" /\ thread[t].calls < MaxCalls
  /\ ProcessAlive
  /\ Return(t, "False")
  /\ UNCHANGED <<adapter, procs, nextPid, status, reason, version, engineSide>>

\* start(), lines 175-177: no live process, go on
StartAccepted(t) ==
  /\ thread[t].pc = "idle" /\ thread[t].calls < MaxCalls
  /\ ~ProcessAlive
  /\ Goto(t, "start_status")
  /\ UNCHANGED <<adapter, procs, nextPid, status, reason, version, engineSide>>

\* start(), lines 179-180
StartStatus(t) ==
  /\ thread[t].pc = "start_status"
  /\ set_status("starting", NoReason)
  /\ Goto(t, "start_spawn")
  /\ UNCHANGED <<adapter, procs, nextPid, engineSide>>

\* start(), lines 182-199: Popen, the handle is stored
StartSpawn(t) ==
  /\ thread[t].pc = "start_spawn"
  /\ procs' = procs \cup {nextPid}
  /\ nextPid' = nextPid + 1
  /\ adapter' = [adapter EXCEPT !.process = nextPid, !.status = "running"]
  /\ Goto(t, "start_monitor")
  /\ UNCHANGED <<status, reason, version, engineSide>>

\* start(), lines 209-212: Popen raised
StartFailed(t) ==
  /\ thread[t].pc = "start_spawn"
  /\ adapter' = [adapter EXCEPT !.status = "error"]
  /\ set_status("error", NoReason)
  /\ Return(t, "False")
  /\ UNCHANGED <<procs, nextPid, engineSide>>

\* _start_monitor_thread, lines 128-135
StartMonitor(t) ==
  /\ thread[t].pc = "start_monitor"
  /\ adapter' = IF adapter.monitor_alive THEN adapter
                ELSE [adapter EXCEPT !.stop_monitoring = FALSE, !.monitor_alive = TRUE]
  /\ Goto(t, "start_running")
  /\ UNCHANGED <<procs, nextPid, status, reason, version, engineSide>>

\* start(), lines 202-207
StartRunning(t) ==
  /\ thread[t].pc = "start_running"
  /\ set_status("running", NoReason)
  /\ Return(t, "True")
  /\ UNCHANGED <<adapter, procs, nextPid, engineSide>>

\* stop(), lines 215-216
StopStatus(t) ==
  /\ thread[t].pc = "idle" /\ thread[t].calls < MaxCalls
  /\ set_status("stopping", NoReason)
  /\ Goto(t, "stop_terminate")
  /\ UNCHANGED <<adapter, procs, nextPid, engineSide>>

\* stop(), lines 218-231: terminate(), up to 10 s, then kill(); the process the
\* handle names is dead afterwards
StopTerminate(t) ==
  /\ thread[t].pc = "stop_terminate"
  /\ procs' = IF ProcessAlive THEN procs \ {adapter.process} ELSE procs
  /\ Goto(t, "stop_monitor")
  /\ UNCHANGED <<adapter, nextPid, status, reason, version, engineSide>>

\* _stop_monitor_thread, lines 168-172
StopMonitor(t) ==
  /\ thread[t].pc = "stop_monitor"
  /\ adapter' = [adapter EXCEPT !.stop_monitoring = TRUE]
  /\ Goto(t, "stop_clear")
  /\ UNCHANGED <<procs, nextPid, status, reason, version, engineSide>>

\* stop(), lines 234-235
StopClear(t) ==
  /\ thread[t].pc = "stop_clear"
  /\ adapter' = [adapter EXCEPT !.process = None, !.status = "idle"]
  /\ Goto(t, "stop_stopped")
  /\ UNCHANGED <<procs, nextPid, status, reason, version, engineSide>>

\* stop(), lines 237-241
StopStopped(t) ==
  /\ thread[t].pc = "stop_stopped"
  /\ set_status("stopped", NoReason)
  /\ Return(t, "True")
  /\ UNCHANGED <<adapter, procs, nextPid, engineSide>>

\* _monitor_status, lines 151-164: the process is alive, status running is written
MonitorWrites ==
  /\ adapter.monitor_alive /\ ~adapter.stop_monitoring
  /\ ProcessAlive
  /\ version < MaxVersion
  /\ set_status("running", NoReason)
  /\ UNCHANGED <<adapter, procs, nextPid, thread, engineSide>>

\* _monitor_status, lines 151, 160-166: the loop ends
MonitorEnds ==
  /\ adapter.monitor_alive
  /\ adapter.stop_monitoring \/ ~ProcessAlive
  /\ adapter' = [adapter EXCEPT !.stop_monitoring = TRUE, !.monitor_alive = FALSE]
  /\ UNCHANGED <<procs, nextPid, thread, status, reason, version, engineSide>>

\* main(): an Engine process ends by itself
ProcessExits ==
  /\ \E p \in procs : procs' = procs \ {p}
  /\ UNCHANGED <<adapter, nextPid, thread, status, reason, version, engineSide>>

\* pause() and resume() of WJWSpiderAdapter and FLKGovSpiderAdapter, lines 573-574
\* and 585-586: no live process, return False
SuspendRefused(t) ==
  /\ thread[t].pc = "idle" /\ thread[t].calls < MaxCalls
  /\ ~ProcessAlive
  /\ Return(t, "False")
  /\ UNCHANGED <<adapter, procs, nextPid, status, reason, version, engineSide>>

\* pause() (op = "pause") and resume() (op = "resume"), lines 573-576 and 585-588:
\* a live process, the try block is entered
SuspendCall(t, op) ==
  /\ thread[t].pc = "idle" /\ thread[t].calls < MaxCalls
  /\ ProcessAlive
  /\ Goto(t, op)
  /\ UNCHANGED <<adapter, procs, nextPid, status, reason, version, engineSide>>

\* pause(), lines 577-582, and resume(), lines 589-594: self.process is a
\* subprocess.Popen, which has no suspend() and no resume(); the call raises
\* AttributeError, the except clause returns False, and the statements after
\* the call (self.status, set_paused) are not reached
SuspendRaises(t) ==
  /\ thread[t].pc \in {"pause", "resume"}
  /\ Return(t, "False")
  /\ UNCHANGED <<adapter, procs, nextPid, status, reason, version, engineSide>>

\* a faulty re-arming, which takes a scheduled time that is not later
NextRunNotLater(t) == ((t + Period - 1) \div Period) * Period
\* croniter(cron_expression, t).get_next(): the first scheduled time after t;
\* the scheduled times are the multiples of Period
NextRun(t) == ((t \div Period) + 1) * Period

\* ScheduledTask.__init__, lines 17-25, at time 0; at: where _run_scheduler is
\* (in its loop, or inside execute()); calls: the calls of start() the scheduler
\* thread had made when execute() began; firedAt, firedFor: the time of the
\* last firing and the scheduled time it was for; fired: the scheduled times
\* of all firings, in order
NoTask ==
  [now |-> 0, next_run |-> NextRun(0), last_run |-> None, status |-> "pending",
   at |-> "loop", calls |-> 0, firedAt |-> 0, firedFor |-> 0, fired |-> <<>>]

\* time passes: time.sleep(1) of the loop, or while a call is under way
Clock ==
  /\ task.now < MaxClock
  /\ task' = [task EXCEPT !.now = @ + 1]
  /\ UNCHANGED <<storeVars, envVars, engineVars, supVars, client, keys, manager, errlog, tally>>

\* _run_scheduler, lines 107-112, and execute, lines 33-35: the task is due and
\* not running; execute() sets it running and calls SpiderManager.start_spider
TaskFire ==
  /\ task.at = "loop"
  /\ task.next_run <= task.now /\ task.status # "running"
  /\ thread["scheduler"].pc = "idle" /\ thread["scheduler"].calls < MaxCalls
  /\ task' = [task EXCEPT !.at = "execute", !.status = "running",
                           !.calls = thread["scheduler"].calls,
                           !.firedAt = task.now, !.firedFor = task.next_run,
                           !.fired = Append(@, task.next_run)]
  /\ UNCHANGED <<storeVars, envVars, engineVars, supVars, client, keys, manager, errlog, tally>>

\* execute, lines 36-40: start() has returned, True or False (it catches what
\* it raises, lines 209-212, so the except clause of execute is not entered);
\* last_run is now, next_run the first scheduled time after it
TaskRearm ==
  /\ task.at = "execute"
  /\ thread["scheduler"].pc = "idle" /\ thread["scheduler"].calls = task.calls + 1
  /\ task' = [task EXCEPT !.at = "loop", !.status = "completed",
                           !.last_run = task.now, !.next_run = NextRun(task.now)]
  /\ UNCHANGED <<storeVars, envVars, engineVars, supVars, client, keys, manager, errlog, tally>>

\* the threads of the control process that ask for statistics: request
\* handlers calling get_stats, and the threads refresh_all_stats_background starts
Workers == {"w1", "w2", "w3"}
NoManager ==
  [lock |-> "free", refreshing |-> FALSE,
   worker |-> [w \in Workers |-> [pc |-> "idle", calls |-> 0]]]

\* NHSASpiderAdapter.get_stats, lines 300-304: the snapshot of the store is
\* returned when it has items; lines 306-317 otherwise: the recomputation begins
GetStatsRead(w) ==
  /\ manager.worker[w].pc = "idle" /\ manager.worker[w].calls < MaxCalls
  /\ manager' = IF client.up /\ "stats" \in keys
                THEN [manager EXCEPT !.worker[w].calls = @ + 1]
                ELSE [manager EXCEPT !.worker[w].pc = "scan"]
  /\ UNCHANGED <<storeVars, envVars, engineVars, supVars, client, keys, task, errlog, tally>>

\* get_stats, lines 319-365: the data file and the files are scanned, the
\* snapshot is stored (set_stats) and returned
GetStatsStore(w) ==
  /\ manager.worker[w].pc = "scan"
  /\ keys' = Stored(keys, keys \cup {"stats"})
  /\ manager' = [manager EXCEPT !.worker[w] = [pc |-> "idle", calls |-> @.calls + 1]]
  /\ UNCHANGED <<storeVars, envVars, engineVars, supVars, client, task, errlog, tally>>

\* refresh_all_stats_background, do_refresh, lines 1187-1192: the thread takes
\* _refresh_lock; the identity is not in _refreshing (else it is passed over),
\* it is added
RefreshBegin(w) ==
  /\ manager.worker[w].pc = "idle" /\ manager.worker[w].calls < MaxCalls
  /\ manager.lock = "free"
  /\ manager' = [manager EXCEPT !.lock = w,
                                 !.refreshing = TRUE,
                                 !.worker[w].pc =
                                    IF manager.refreshing THEN "passed" ELSE "refresh"]
  /\ UNCHANGED <<storeVars, envVars, engineVars, supVars, client, keys, task, errlog, tally>>

\* do_refresh, lines 1193-1199, and _refresh_stats_from_datafile, lines 369-375:
\* signal.signal is called in a thread that is not the main thread and raises
\* ValueError before anything is scanned; do_refresh catches it, takes the
\* identity out of _refreshing and releases the lock
RefreshEnds(w) ==
  /\ manager.worker[w].pc \in {"refresh", "passed"}
  /\ manager' = [manager EXCEPT
                   !.lock = "free",
                   !.refreshing = IF manager.worker[w].pc = "refresh" THEN FALSE ELSE @,
                   !.worker[w] = [pc |-> "idle", calls |-> @.calls + 1]]
  /\ UNCHANGED <<storeVars, envVars, engineVars, supVars, client, keys, task, errlog, tally>>

\* NHSASpiderAdapter.get_status, lines 243-292: the status it reports is the
\* stored one when that is running, paused or stopping, and stopped otherwise;
\* the process is looked at for the pid and the exit code only
get_status ==
  [status |-> IF status \in {"running", "paused", "stopping"} THEN status ELSE "stopped",
   running |-> status = "running",
   pid |-> IF ProcessAlive THEN adapter.process ELSE None]

\* WJWSpiderAdapter.get_status and FLKGovSpiderAdapter.get_status, lines 596-645
\* and 945-994: idle without a live process, the adapter's own status with one
wjw_get_status ==
  IF adapter.process = None
  THEN [status |-> "idle", running |-> FALSE, pid |-> None]
  ELSE IF ProcessAlive
  THEN [status |-> adapter.status, running |-> status = "running", pid |-> adapter.process]
  ELSE [status |-> "idle", running |-> FALSE, pid |-> None]

SupNext ==
  \/ \E t \in Threads : StartRefused(t) /\ UNCHANGED tally
  \/ \E t \in Threads : StartAccepted(t) /\ UNCHANGED tally
  \/ \E t \in Threads : StartStatus(t) /\ UNCHANGED tally
  \/ \E t \in Threads : StartSpawn(t) /\ UNCHANGED tally
  \/ \E t \in Threads : StartFailed(t) /\ UNCHANGED tally
  \/ \E t \in Threads : StartMonitor(t) /\ UNCHANGED tally
  \/ \E t \in Threads : StartRunning(t) /\ UNCHANGED tally
  \/ StopStatus("api") /\ UNCHANGED tally
  \/ StopTerminate("api") /\ UNCHANGED tally
  \/ StopMonitor("api") /\ UNCHANGED tally
  \/ StopClear("api") /\ UNCHANGED tally
  \/ StopStopped("api") /\ UNCHANGED tally
  \/ MonitorWrites /\ UNCHANGED tally
  \/ MonitorEnds /\ UNCHANGED tally
  \/ ProcessExits /\ UNCHANGED tally

(***************************************************************************)
(* The store seen by its clients: set_status and get_status command by     *)
(* command, cleanup, reset_state, and a store that comes and goes          *)
(***************************************************************************)
\* the processes that write the status: the Engine and the Supervisor
Writers == {"engine", "supervisor"}

\* up: the store answers; writer: position of each caller of set_status and
\* what its last call returned; okWrites: calls of set_status that returned True;
\* reader: position of a caller of get_status, whether its last answer came
\* from the store (source), the version it got last (seen), the highest it got
\* before that (best); NoVersion: it got none yet
NoVersion == -1
NoClient ==
  [up |-> TRUE,
   writer |-> [w \in Writers |-> [pc |-> "idle", ret |-> "none"]],
   okWrites |-> 0,
   reader |-> [pc |-> "idle", source |-> "none", seen |-> NoVersion, best |-> NoVersion]]

Max(a, b) == IF a > b THEN a ELSE b
otherSide == <<envVars, engineVars, supVars, keys, manager, task, errlog, tally>>
storeLists == <<paused, errorMsg, lastPage, complete, visited, crawled, queue>>

\* the connection to the store is lost, or comes back
StoreDown ==
  /\ client.up
  /\ client' = [client EXCEPT !.up = FALSE]
  /\ UNCHANGED <<storeVars, otherSide>>

StoreUp ==
  /\ ~client.up
  /\ client' = [client EXCEPT !.up = TRUE]
  /\ UNCHANGED <<storeVars, otherSide>>

\* set_status, lines 96-102: HSET of status and the given details
SetStatusHset(w) ==
  /\ client.writer[w].pc = "idle"
  /\ client.okWrites < MaxWrites
  /\ client.up
  /\ \E st \in {"running", "stopped"}, rs \in {NoReason, "completed"} :
       /\ status' = st
       /\ reason' = IF rs = NoReason THEN reason ELSE rs
       /\ client' = [client EXCEPT !.writer[w].pc = "incr"]
  /\ UNCHANGED <<version, storeLists, otherSide>>

\* set_status, lines 96-98 and 105-107: no client, or HSET raised: False
SetStatusFails(w) ==
  /\ client.writer[w].pc = "idle"
  /\ ~client.up
  /\ client' = [client EXCEPT !.writer[w].ret = "False"]
  /\ UNCHANGED <<storeVars, otherSide>>

\* set_status, lines 103-104, and _increment_status_version: INCR; True
SetStatusIncr(w) ==
  /\ client.writer[w].pc = "incr"
  /\ client.up
  /\ version' = version + 1
  /\ client' = [client EXCEPT !.writer[w] = [pc |-> "idle", ret |-> "True"],
                               !.okWrites = @ + 1]
  /\ UNCHANGED <<status, reason, storeLists, otherSide>>

\* _increment_status_version, lines 125-127: INCR raised, False, which set_status
\* does not look at: True
SetStatusIncrFails(w) ==
  /\ client.writer[w].pc = "incr"
  /\ ~client.up
  /\ client' = [client EXCEPT !.writer[w] = [pc |-> "idle", ret |-> "True"],
                               !.okWrites = @ + 1]
  /\ UNCHANGED <<storeVars, otherSide>>

\* get_status, lines 131-134: HGETALL
GetStatusState ==
  /\ client.reader.pc = "idle"
  /\ client.up
  /\ client' = [client EXCEPT !.reader.pc = "version"]
  /\ UNCHANGED <<storeVars, otherSide>>

\* get_status, lines 132-133 and 145-146: no client, or HGETALL raised: an answer
\* without a version
GetStatusFails ==
  /\ client.reader.pc = "idle"
  /\ ~client.up
  /\ client' = [client EXCEPT !.reader.source = "error"]
  /\ UNCHANGED <<storeVars, otherSide>>

\* get_status, line 142, and _get_status_version: GET, or 0 when it raised
GetStatusVersion ==
  /\ client.reader.pc = "version"
  /\ client' = [client EXCEPT
                  !.reader = [pc |-> "idle", source |-> "redis",
                              seen |-> IF client.up THEN version ELSE 0,
                              best |-> Max(client.reader.best, client.reader.seen)]]
  /\ UNCHANGED <<storeVars, otherSide>>

\* the keys of an identity beside the state hash, the pagination hash,
\* visited_urls, crawled_urls, links_queue and status_version
OtherKeys == {"progress", "errors", "stats", "url_queue", "checkpoint", "empty_content_urls"}

\* update_progress, log_error, set_stats, push_to_queue, save_checkpoint,
\* mark_url_empty_content: the key is written, whatever it held
WriteKey(k) ==
  /\ client.up
  /\ keys' = keys \cup {k}
  /\ UNCHANGED <<storeVars, client, envVars, engineVars, supVars, manager, task, errlog, tally>>

\* a faulty soft reset, which deletes the pagination hash too
reset_state_pagination ==
  /\ client.up
  /\ status' = "idle" /\ reason' = NoReason /\ paused' = FALSE /\ errorMsg' = NoReason
  /\ lastPage' = [c \in Cols |-> 0]
  /\ complete' = [c \in Cols |-> FALSE]
  /\ keys' = keys \ {"progress", "url_queue", "errors", "checkpoint"}
  /\ errlog' = [errlog EXCEPT !.errors = <<>>, !.error_count = 0, !.recorded = <<>>]
  /\ UNCHANGED <<version, visited, crawled, queue, client,
                 envVars, engineVars, supVars, manager, task, tally>>

\* cleanup, lines 685-697: DEL of state, progress, pagination, visited_urls,
\* url_queue, errors, links_queue, crawled_urls, checkpoint; status_version,
\* stats and empty_content_urls are not in the list
cleanup ==
  /\ client.up
  /\ status' = "idle" /\ reason' = NoReason /\ paused' = FALSE /\ errorMsg' = NoReason
  /\ lastPage' = [c \in Cols |-> 0]
  /\ complete' = [c \in Cols |-> FALSE]
  /\ visited' = {} /\ crawled' = {} /\ queue' = <<>>
  /\ keys' = keys \ {"progress", "url_queue", "errors", "checkpoint"}
  /\ errlog' = [errlog EXCEPT !.errors = <<>>, !.error_count = 0, !.recorded = <<>>]
  /\ UNCHANGED <<version, client, envVars, engineVars, supVars, manager, task, tally>>

\* reset_state, lines 707-715: DEL of state, progress, url_queue, errors, checkpoint
reset_state ==
  /\ client.up
  /\ status' = "idle" /\ reason' = NoReason /\ paused' = FALSE /\ errorMsg' = NoReason
  /\ keys' = keys \ {"progress", "url_queue", "errors", "checkpoint"}
  /\ errlog' = [errlog EXCEPT !.errors = <<>>, !.error_count = 0, !.recorded = <<>>]
  /\ UNCHANGED <<version, lastPage, complete, visited, crawled, queue, client,
                 envVars, engineVars, supVars, manager, task, tally>>

StoreNext ==
  \/ StoreDown
  \/ StoreUp
  \/ \E w \in Writers : SetStatusHset(w)
  \/ \E w \in Writers : SetStatusFails(w)
  \/ \E w \in Writers : SetStatusIncr(w)
  \/ \E w \in Writers : SetStatusIncrFails(w)
  \/ GetStatusState
  \/ GetStatusFails
  \/ GetStatusVersion
  \/ cleanup
  \/ reset_state

(***************************************************************************)
(* History of the run: what the properties need to remember of the         *)
(* operations observed so far (ev' is the operation just performed)        *)
(***************************************************************************)
NoHist ==
  [tripped |-> FALSE,    \* the breaker tripped in this process
   tripInv |-> FALSE,    \* the breaker tripped in this call of _crawl_details_phase
   streak |-> 0,         \* Fail results since the last Success or Skip of this call
   arrival |-> <<>>,     \* the queued records, oldest push first
   oldest |-> TRUE,      \* every pop so far took the oldest queued record
   skipped |-> {},       \* URLs whose fetch ended in a benign Skip
   pushed |-> {},        \* URLs link collection has pushed
   again |-> {},         \* URLs link collection has pushed more than once
   completed |-> <<>>,   \* URLs in the order their fetches succeeded
   aborted |-> FALSE,    \* a section was left on 3 consecutive failed requests, in this process
   lfails |-> 0,         \* failed list requests in a row, in this section and phase
   asked |-> {},         \* <<section, offset>> of the list requests of this process
   pass |-> {},          \* offsets of the list requests of this pass over the section
   left |-> 0,           \* items of the last answered page not yet pushed or found visited
   raised |-> FALSE,     \* run() caught an unexpected failure, in this process
   stopped |-> FALSE,    \* should_stop was set when run() returned
   waited |-> FALSE]     \* the Engine entered the pause wait, in this process

RECURSIVE RemoveFirst(_, _)
RemoveFirst(s, x) ==
  IF s = <<>> THEN <<>>
  ELSE IF Head(s) = x THEN Tail(s)
  ELSE <<Head(s)>> \o RemoveFirst(Tail(s), x)

\* where run() is while _collect_column_links is under way
CollectPcs == {"cl_loop", "cl_req", "cl_item", "cl_mark", "cl_after", "cl_ret"}

Observe ==
  LET e == ev' IN
  hist' = [
    tripped |-> CASE e.op = "launch" -> FALSE
                  [] e.op = "trip" -> TRUE
                  [] OTHER -> hist.tripped,
    tripInv |-> CASE e.op \in {"details", "launch"} -> FALSE
                  [] e.op = "trip" -> TRUE
                  [] OTHER -> hist.tripInv,
    streak |-> CASE e.op \in {"details", "success", "skip", "launch", "kill", "exit"} -> 0
                 [] e.op \in {"fail", "trip"} -> hist.streak + 1
                 [] OTHER -> hist.streak,
    arrival |-> CASE e.op \in {"collect_push", "fail"} -> Append(hist.arrival, e.url)
                  [] e.op \in {"pop_drop", "pop_fetch"} -> RemoveFirst(hist.arrival, e.url)
                  [] OTHER -> hist.arrival,
    oldest |-> CASE e.op \in {"pop_drop", "pop_fetch"} ->
                      hist.oldest /\ hist.arrival # <<>> /\ e.url = Head(hist.arrival)
                 [] OTHER -> hist.oldest,
    skipped |-> CASE e.op = "skip" -> hist.skipped \cup {e.url}
                  [] OTHER -> hist.skipped,
    pushed |-> CASE e.op = "collect_push" -> hist.pushed \cup {e.url}
                 [] OTHER -> hist.pushed,
    again |-> CASE e.op = "collect_push" /\ e.url \in hist.pushed -> hist.again \cup {e.url}
                [] OTHER -> hist.again,
    completed |-> CASE e.op = "success" -> Append(hist.completed, e.url)
                    [] OTHER -> hist.completed,
    aborted |-> CASE e.op = "launch" -> FALSE
                  [] e.op = "list_failed" /\ crawler'.pc = "cl_ret" -> TRUE
                  [] OTHER -> hist.aborted,
    lfails |-> CASE e.op = "list_failed" -> hist.lfails + 1
                 [] e.op = "list_ok" -> 0
                 [] crawler'.pc \notin CollectPcs -> 0
                 [] OTHER -> hist.lfails,
    asked |-> CASE e.op = "launch" -> {}
                [] e.op = "list_request" -> hist.asked \cup {<<e.col, e.n>>}
                [] OTHER -> hist.asked,
    pass |-> CASE e.op = "list_request" -> hist.pass \cup {e.n}
               [] crawler'.pc \notin CollectPcs -> {}
               [] OTHER -> hist.pass,
    left |-> CASE e.op = "list_ok" -> Len(crawler'.page)
               [] e.op \in {"duplicate", "mark_visited"} -> hist.left - 1
               [] crawler'.pc \notin CollectPcs -> 0
               [] OTHER -> hist.left,
    raised |-> CASE e.op = "launch" -> FALSE
                 [] e.op = "caught" -> TRUE
                 [] OTHER -> hist.raised,
    stopped |-> CASE e.op = "launch" -> FALSE
                  [] e.op = "exit" -> crawler.should_stop
                  [] OTHER -> hist.stopped,
    waited |-> CASE e.op = "launch" -> FALSE
                 [] e.op = "pause_wait" -> TRUE
                 [] OTHER -> hist.waited ]

(***************************************************************************)
(* Specification of the Engine over the store                              *)
(***************************************************************************)
StoreInit ==
  /\ status = "idle" /\ reason = NoReason /\ version = 0 /\ paused = FALSE
  /\ errorMsg = NoReason
  /\ lastPage = [c \in Cols |-> 0]
  /\ complete = [c \in Cols |-> FALSE]
  /\ visited = {} /\ crawled = {} /\ queue = <<>>

\* nothing requested yet; the status of an empty state hash reads idle
NoTally ==
  [requests |-> [c \in Cols |-> 0],
   path |-> << [status |-> "idle", reason |-> NoReason] >>,
   dups |-> 0,     \* already-visited URLs observed since the daily job fired
   news |-> 0,     \* new URLs pushed since the daily job fired
   pauses |-> 0]   \* calls of pause() so far

\* a step of the Supervisor: the status path only
TallyStatus == tally' = [tally EXCEPT !.path = StatusPath]

\* a step of the Engine: a list request is counted, duplicates and new URLs too
Tally ==
  tally' =
       [requests |-> IF ev'.op = "list_request"
                     THEN [tally.requests EXCEPT ![ev'.col] = @ + 1]
                     ELSE tally.requests,
        path |-> StatusPath,
        dups |-> CASE ev'.op = "job" -> 0
                   [] ev'.op = "duplicate" -> tally.dups + 1
                   [] OTHER -> tally.dups,
        news |-> CASE ev'.op = "job" -> 0
                   [] ev'.op = "collect_push" -> tally.news + 1
                   [] OTHER -> tally.news,
        pauses |-> tally.pauses]

\* no error recorded yet
NoErrors == [errors |-> <<>>, error_count |-> 0, file |-> <<>>, recorded |-> <<>>]

SupInit ==
  /\ adapter = NoAdapter /\ procs = {} /\ nextPid = 1
  /\ thread = [t \in Threads |-> [pc |-> "idle", calls |-> 0, ret |-> "none", from |-> "none"]]
  /\ client = NoClient
  /\ keys = {}
  /\ manager = NoManager
  /\ task = NoTask
  /\ errlog = NoErrors
  /\ tally = NoTally

InitSite(site, perpage) ==
  /\ source = site
  /\ PERPAGE = perpage
  /\ column_configs = [c \in DOMAIN site |-> [end_records |-> Len(site[c])]]
  /\ StoreInit
  /\ published = 0 /\ runs = 0 /\ fires = 0
  /\ crawler = NoCrawler /\ ev = Quiet /\ hist = NoHist
  /\ SupInit

InitWith(site) == InitSite(site, PageSize)

Init == InitWith(InitialSource)

\* the initial crawl: runs, stops, kills and restarts; 08:00 does not come
Next ==
  \/ Launch /\ Observe /\ UNCHANGED <<supVars, client, keys, manager, task, errlog, tally>>
  \/ Kill /\ Observe /\ UNCHANGED <<supVars, client, keys, manager, task, errlog, tally>>
  \/ Signal /\ UNCHANGED <<hist, supVars, client, keys, manager, task, errlog, tally>>
  \/ RunStart /\ Observe /\ UNCHANGED <<supVars, client, keys, manager, task, errlog, tally>>
  \/ RunCaughtUp /\ Observe /\ UNCHANGED <<supVars, client, keys, manager, task, errlog, tally>>
  \/ RunCollect /\ Observe /\ UNCHANGED <<supVars, client, keys, manager, task, errlog, tally>>
  \/ RunNoCollect /\ Observe /\ UNCHANGED <<supVars, client, keys, manager, task, errlog, tally>>
  \/ P1Done /\ Observe /\ UNCHANGED <<supVars, client, keys, manager, task, errlog, tally>>
  \/ P1Skip /\ Observe /\ UNCHANGED <<supVars, client, keys, manager, task, errlog, tally>>
  \/ P1Enter /\ Observe /\ UNCHANGED <<supVars, client, keys, manager, task, errlog, tally>>
  \/ CollectExit /\ Observe /\ UNCHANGED <<supVars, client, keys, manager, task, errlog, tally>>
  \/ ListRequest /\ Observe /\ UNCHANGED <<supVars, client, keys, manager, task, errlog, tally>>
  \/ ListFail /\ Observe /\ UNCHANGED <<supVars, client, keys, manager, task, errlog, tally>>
  \/ ListOk /\ Observe /\ UNCHANGED <<supVars, client, keys, manager, task, errlog, tally>>
  \/ ItemsDone /\ Observe /\ UNCHANGED <<supVars, client, keys, manager, task, errlog, tally>>
  \/ ItemVisited /\ Observe /\ UNCHANGED <<supVars, client, keys, manager, task, errlog, tally>>
  \/ ItemPush /\ Observe /\ UNCHANGED <<supVars, client, keys, manager, task, errlog, tally>>
  \/ ItemMark /\ Observe /\ UNCHANGED <<supVars, client, keys, manager, task, errlog, tally>>
  \/ AfterPage /\ Observe /\ UNCHANGED <<supVars, client, keys, manager, task, errlog, tally>>
  \/ P1MarkComplete /\ Observe /\ UNCHANGED <<supVars, client, keys, manager, task, errlog, tally>>
  \/ RunStopped /\ Observe /\ UNCHANGED <<supVars, client, keys, manager, task, errlog, tally>>
  \/ RunDetails /\ Observe /\ UNCHANGED <<supVars, client, keys, manager, task, errlog, tally>>
  \/ RunNoDetails /\ Observe /\ UNCHANGED <<supVars, client, keys, manager, task, errlog, tally>>
  \/ DetailsExit /\ Observe /\ UNCHANGED <<supVars, client, keys, manager, task, errlog, tally>>
  \/ PopDrop /\ Observe /\ UNCHANGED <<supVars, client, keys, manager, task, errlog, tally>>
  \/ PopFetch /\ Observe /\ UNCHANGED <<supVars, client, keys, manager, task, errlog, tally>>
  \/ FetchSuccess /\ Observe /\ UNCHANGED <<supVars, client, keys, manager, task, errlog, tally>>
  \/ FetchSkip /\ Observe /\ UNCHANGED <<supVars, client, keys, manager, task, errlog, tally>>
  \/ FetchFailRetry /\ Observe /\ UNCHANGED <<supVars, client, keys, manager, task, errlog, tally>>
  \/ FetchFailTrip /\ Observe /\ UNCHANGED <<supVars, client, keys, manager, task, errlog, tally>>
  \/ RunCompleted /\ Observe /\ UNCHANGED <<supVars, client, keys, manager, task, errlog, tally>>
  \/ RunNotCompleted /\ Observe /\ UNCHANGED <<supVars, client, keys, manager, task, errlog, tally>>
  \/ SchedulerExit /\ Observe /\ UNCHANGED <<supVars, client, keys, manager, task, errlog, tally>>
  \/ RunFinally /\ Observe /\ UNCHANGED <<supVars, client, keys, manager, task, errlog, tally>>

Spec == Init /\ [][Next]_vars

\* the same with the daily job: 08:00 comes, the site publishes nothing new
DailyNext ==
  \/ Next
  \/ JobRescan /\ Observe /\ UNCHANGED <<supVars, client, keys, manager, task, errlog, tally>>
  \/ ScDoneColumns /\ Observe /\ UNCHANGED <<supVars, client, keys, manager, task, errlog, tally>>
  \/ ScEnter /\ Observe /\ UNCHANGED <<supVars, client, keys, manager, task, errlog, tally>>
  \/ ScNextColumn /\ Observe /\ UNCHANGED <<supVars, client, keys, manager, task, errlog, tally>>
  \/ ScAfter /\ Observe /\ UNCHANGED <<supVars, client, keys, manager, task, errlog, tally>>
  \/ ScDone /\ Observe /\ UNCHANGED <<supVars, client, keys, manager, task, errlog, tally>>

DailyInit == InitWith(TwoSections)

DailySpec == DailyInit /\ [][DailyNext]_vars

\* recurring mode on a small site that publishes new items; one process, not killed
RecurInit == InitWith(SmallSource)

RecurNext ==
  \/ Launch /\ Observe /\ UNCHANGED <<supVars, client, keys, manager, task, errlog, tally>>
  \/ Signal /\ UNCHANGED <<hist, supVars, client, keys, manager, task, errlog, tally>>
  \/ Publish /\ UNCHANGED <<hist, supVars, client, keys, manager, task, errlog, tally>>
  \/ RunStart /\ Observe /\ UNCHANGED <<supVars, client, keys, manager, task, errlog, tally>>
  \/ RunCaughtUp /\ Observe /\ UNCHANGED <<supVars, client, keys, manager, task, errlog, tally>>
  \/ RunCollect /\ Observe /\ UNCHANGED <<supVars, client, keys, manager, task, errlog, tally>>
  \/ P1Done /\ Observe /\ UNCHANGED <<supVars, client, keys, manager, task, errlog, tally>>
  \/ P1Enter /\ Observe /\ UNCHANGED <<supVars, client, keys, manager, task, errlog, tally>>
  \/ CollectExit /\ Observe /\ UNCHANGED <<supVars, client, keys, manager, task, errlog, tally>>
  \/ ListRequest /\ Observe /\ UNCHANGED <<supVars, client, keys, manager, task, errlog, tally>>
  \/ ListFail /\ Observe /\ UNCHANGED <<supVars, client, keys, manager, task, errlog, tally>>
  \/ ListOk /\ Observe /\ UNCHANGED <<supVars, client, keys, manager, task, errlog, tally>>
  \/ ItemsDone /\ Observe /\ UNCHANGED <<supVars, client, keys, manager, task, errlog, tally>>
  \/ ItemVisited /\ Observe /\ UNCHANGED <<supVars, client, keys, manager, task, errlog, tally>>
  \/ ItemPush /\ Observe /\ UNCHANGED <<supVars, client, keys, manager, task, errlog, tally>>
  \/ ItemMark /\ Observe /\ UNCHANGED <<supVars, client, keys, manager, task, errlog, tally>>
  \/ AfterPage /\ Observe /\ UNCHANGED <<supVars, client, keys, manager, task, errlog, tally>>
  \/ P1MarkComplete /\ Observe /\ UNCHANGED <<supVars, client, keys, manager, task, errlog, tally>>
  \/ RunStopped /\ Observe /\ UNCHANGED <<supVars, client, keys, manager, task, errlog, tally>>
  \/ RunDetails /\ Observe /\ UNCHANGED <<supVars, client, keys, manager, task, errlog, tally>>
  \/ RunNoDetails /\ Observe /\ UNCHANGED <<supVars, client, keys, manager, task, errlog, tally>>
  \/ DetailsExit /\ Observe /\ UNCHANGED <<supVars, client, keys, manager, task, errlog, tally>>
  \/ PopFetch /\ Observe /\ UNCHANGED <<supVars, client, keys, manager, task, errlog, tally>>
  \/ FetchSuccess /\ Observe /\ UNCHANGED <<supVars, client, keys, manager, task, errlog, tally>>
  \/ FetchSkip /\ Observe /\ UNCHANGED <<supVars, client, keys, manager, task, errlog, tally>>
  \/ FetchFailRetry /\ Observe /\ UNCHANGED <<supVars, client, keys, manager, task, errlog, tally>>
  \/ FetchFailTrip /\ Observe /\ UNCHANGED <<supVars, client, keys, manager, task, errlog, tally>>
  \/ RunCompleted /\ Observe /\ UNCHANGED <<supVars, client, keys, manager, task, errlog, tally>>
  \/ RunNotCompleted /\ Observe /\ UNCHANGED <<supVars, client, keys, manager, task, errlog, tally>>
  \/ SchedulerExit /\ Observe /\ UNCHANGED <<supVars, client, keys, manager, task, errlog, tally>>
  \/ JobRescan /\ Observe /\ UNCHANGED <<supVars, client, keys, manager, task, errlog, tally>>
  \/ JobOther /\ Observe /\ UNCHANGED <<supVars, client, keys, manager, task, errlog, tally>>
  \/ ScDoneColumns /\ Observe /\ UNCHANGED <<supVars, client, keys, manager, task, errlog, tally>>
  \/ ScEnter /\ Observe /\ UNCHANGED <<supVars, client, keys, manager, task, errlog, tally>>
  \/ ScNextColumn /\ Observe /\ UNCHANGED <<supVars, client, keys, manager, task, errlog, tally>>
  \/ ScAfter /\ Observe /\ UNCHANGED <<supVars, client, keys, manager, task, errlog, tally>>
  \/ ScDone /\ Observe /\ UNCHANGED <<supVars, client, keys, manager, task, errlog, tally>>
  \/ RunFinally /\ Observe /\ UNCHANGED <<supVars, client, keys, manager, task, errlog, tally>>

RecurSpec == RecurInit /\ [][RecurNext]_vars

\* one run of the initial crawl of a section of three pages, with unexpected
\* failures and stop requests; no kill, and 08:00 does not come
FaultInit == InitWith(ThreePages)

FaultNext ==
  \/ Launch /\ runs = 0 /\ Observe /\ UNCHANGED <<supVars, client, keys, manager, task, errlog, tally>>
  \/ Signal /\ UNCHANGED <<hist, supVars, client, keys, manager, task, errlog, tally>>
  \/ RunStart /\ Observe /\ UNCHANGED <<supVars, client, keys, manager, task, errlog, tally>>
  \/ RunCollect /\ Observe /\ UNCHANGED <<supVars, client, keys, manager, task, errlog, tally>>
  \/ P1Done /\ Observe /\ UNCHANGED <<supVars, client, keys, manager, task, errlog, tally>>
  \/ P1Enter /\ Observe /\ UNCHANGED <<supVars, client, keys, manager, task, errlog, tally>>
  \/ CollectExit /\ Observe /\ UNCHANGED <<supVars, client, keys, manager, task, errlog, tally>>
  \/ ListRequest /\ Observe /\ UNCHANGED <<supVars, client, keys, manager, task, errlog, tally>>
  \/ ListFail /\ Observe /\ UNCHANGED <<supVars, client, keys, manager, task, errlog, tally>>
  \/ ListOk /\ Observe /\ UNCHANGED <<supVars, client, keys, manager, task, errlog, tally>>
  \/ ItemsDone /\ Observe /\ UNCHANGED <<supVars, client, keys, manager, task, errlog, tally>>
  \/ ItemPush /\ Observe /\ UNCHANGED <<supVars, client, keys, manager, task, errlog, tally>>
  \/ ItemMark /\ Observe /\ UNCHANGED <<supVars, client, keys, manager, task, errlog, tally>>
  \/ AfterPage /\ Observe /\ UNCHANGED <<supVars, client, keys, manager, task, errlog, tally>>
  \/ P1MarkComplete /\ Observe /\ UNCHANGED <<supVars, client, keys, manager, task, errlog, tally>>
  \/ RunStopped /\ Observe /\ UNCHANGED <<supVars, client, keys, manager, task, errlog, tally>>
  \/ RunDetails /\ Observe /\ UNCHANGED <<supVars, client, keys, manager, task, errlog, tally>>
  \/ RunNoDetails /\ Observe /\ UNCHANGED <<supVars, client, keys, manager, task, errlog, tally>>
  \/ DetailsExit /\ Observe /\ UNCHANGED <<supVars, client, keys, manager, task, errlog, tally>>
  \/ PopFetch /\ Observe /\ UNCHANGED <<supVars, client, keys, manager, task, errlog, tally>>
  \/ FetchSuccess /\ Observe /\ UNCHANGED <<supVars, client, keys, manager, task, errlog, tally>>
  \/ FetchSkip /\ Observe /\ UNCHANGED <<supVars, client, keys, manager, task, errlog, tally>>
  \/ FetchFailRetry /\ Observe /\ UNCHANGED <<supVars, client, keys, manager, task, errlog, tally>>
  \/ FetchFailTrip /\ Observe /\ UNCHANGED <<supVars, client, keys, manager, task, errlog, tally>>
  \/ RunCompleted /\ Observe /\ UNCHANGED <<supVars, client, keys, manager, task, errlog, tally>>
  \/ RunNotCompleted /\ Observe /\ UNCHANGED <<supVars, client, keys, manager, task, errlog, tally>>
  \/ SchedulerExit /\ Observe /\ UNCHANGED <<supVars, client, keys, manager, task, errlog, tally>>
  \/ RunFinally /\ Observe /\ UNCHANGED <<supVars, client, keys, manager, task, errlog, tally>>
  \/ PhaseRaises /\ Observe /\ UNCHANGED <<supVars, client, keys, manager, task, errlog, tally>>
  \/ RunExcept /\ Observe /\ UNCHANGED <<supVars, client, keys, manager, task, errlog, tally>>

FaultSpec == FaultInit /\ [][FaultNext]_vars

\* the Supervisor alone: start() and stop() from the API thread, start() from the
\* Scheduler thread, the liveness loop, processes that end
SupSpec == Init /\ [][SupNext]_vars

\* the store after a crawl of the small site, and its clients
StoredInit ==
  /\ source = SmallSource
  /\ PERPAGE = PageSize
  /\ column_configs = [c \in DOMAIN SmallSource |-> [end_records |-> Len(SmallSource[c])]]
  /\ status = "stopped" /\ reason = "completed" /\ version = 0 /\ paused = FALSE
  /\ errorMsg = NoReason
  /\ lastPage = [c \in DOMAIN SmallSource |-> 1]
  /\ complete = [c \in DOMAIN SmallSource |-> TRUE]
  /\ visited = {1} /\ crawled = {} /\ queue = <<1>>
  /\ published = 0 /\ runs = 0 /\ fires = 0
  /\ crawler = NoCrawler /\ ev = Quiet /\ hist = NoHist
  /\ SupInit

StoreSpec == StoredInit /\ [][StoreNext]_vars

\* the end-to-end scenario: a site of two sections of 30 and 10 items, page
\* size 15, a clean store, and one run in which every request and fetch succeeds
E2ESource == << [i \in 1..30 |-> i], [i \in 1..10 |-> 30 + i] >>

E2EInit == InitSite(E2ESource, DEFAULT_PERPAGE)

E2ENext ==
  \/ Launch /\ runs = 0 /\ Observe /\ Tally /\ UNCHANGED <<supVars, client, keys, manager, task, errlog>>
  \/ RunStart /\ Observe /\ Tally /\ UNCHANGED <<supVars, client, keys, manager, task, errlog>>
  \/ RunCollect /\ Observe /\ Tally /\ UNCHANGED <<supVars, client, keys, manager, task, errlog>>
  \/ P1Enter /\ Observe /\ Tally /\ UNCHANGED <<supVars, client, keys, manager, task, errlog>>
  \/ ListRequest /\ Observe /\ Tally /\ UNCHANGED <<supVars, client, keys, manager, task, errlog>>
  \/ ListOk /\ Observe /\ Tally /\ UNCHANGED <<supVars, client, keys, manager, task, errlog>>
  \/ ItemPush /\ Observe /\ Tally /\ UNCHANGED <<supVars, client, keys, manager, task, errlog>>
  \/ ItemMark /\ Observe /\ Tally /\ UNCHANGED <<supVars, client, keys, manager, task, errlog>>
  \/ ItemsDone /\ Observe /\ Tally /\ UNCHANGED <<supVars, client, keys, manager, task, errlog>>
  \/ AfterPage /\ Observe /\ Tally /\ UNCHANGED <<supVars, client, keys, manager, task, errlog>>
  \/ CollectExit /\ Observe /\ Tally /\ UNCHANGED <<supVars, client, keys, manager, task, errlog>>
  \/ P1MarkComplete /\ Observe /\ Tally /\ UNCHANGED <<supVars, client, keys, manager, task, errlog>>
  \/ P1Done /\ Observe /\ Tally /\ UNCHANGED <<supVars, client, keys, manager, task, errlog>>
  \/ RunDetails /\ Observe /\ Tally /\ UNCHANGED <<supVars, client, keys, manager, task, errlog>>
  \/ PopFetch /\ Observe /\ Tally /\ UNCHANGED <<supVars, client, keys, manager, task, errlog>>
  \/ FetchSuccess /\ Observe /\ Tally /\ UNCHANGED <<supVars, client, keys, manager, task, errlog>>
  \/ DetailsExit /\ Observe /\ Tally /\ UNCHANGED <<supVars, client, keys, manager, task, errlog>>
  \/ RunCompleted /\ Observe /\ Tally /\ UNCHANGED <<supVars, client, keys, manager, task, errlog>>

E2ESpec == E2EInit /\ [][E2ENext]_vars

\* the daily re-scan of a section whose items were all crawled before, with
\* the default page size or with pages that hold the whole section; the site
\* may publish one new item
DupSource == << [i \in 1..DupItems |-> i] >>

DupInit ==
  /\ source = DupSource
  /\ PERPAGE \in {DEFAULT_PERPAGE, DupItems}
  /\ column_configs = [c \in DOMAIN DupSource |-> [end_records |-> DupItems]]
  /\ status = "stopped" /\ reason = "completed" /\ version = 0 /\ paused = FALSE
  /\ errorMsg = NoReason
  /\ lastPage = [c \in DOMAIN DupSource |-> DupItems]
  /\ complete = [c \in DOMAIN DupSource |-> TRUE]
  /\ visited = 1..DupItems /\ crawled = 1..DupItems /\ queue = <<>>
  /\ published = 0 /\ runs = 0 /\ fires = 0
  /\ crawler = NoCrawler /\ ev = Quiet /\ hist = NoHist
  /\ SupInit

DupNext ==
  \/ Publish /\ published = 0 /\ UNCHANGED <<hist, supVars, client, keys, manager, task, errlog, tally>>
  \/ Launch /\ runs = 0 /\ Observe /\ Tally /\ UNCHANGED <<supVars, client, keys, manager, task, errlog>>
  \/ RunStart /\ Observe /\ Tally /\ UNCHANGED <<supVars, client, keys, manager, task, errlog>>
  \/ RunCaughtUp /\ Observe /\ Tally /\ UNCHANGED <<supVars, client, keys, manager, task, errlog>>
  \/ JobRescan /\ Observe /\ Tally /\ UNCHANGED <<supVars, client, keys, manager, task, errlog>>
  \/ ScEnter /\ Observe /\ Tally /\ UNCHANGED <<supVars, client, keys, manager, task, errlog>>
  \/ CollectExit /\ Observe /\ Tally /\ UNCHANGED <<supVars, client, keys, manager, task, errlog>>
  \/ ListRequest /\ Observe /\ Tally /\ UNCHANGED <<supVars, client, keys, manager, task, errlog>>
  \/ ListOk /\ Observe /\ Tally /\ UNCHANGED <<supVars, client, keys, manager, task, errlog>>
  \/ ItemVisited /\ Observe /\ Tally /\ UNCHANGED <<supVars, client, keys, manager, task, errlog>>
  \/ ItemPush /\ Observe /\ Tally /\ UNCHANGED <<supVars, client, keys, manager, task, errlog>>
  \/ ItemMark /\ Observe /\ Tally /\ UNCHANGED <<supVars, client, keys, manager, task, errlog>>
  \/ ItemsDone /\ Observe /\ Tally /\ UNCHANGED <<supVars, client, keys, manager, task, errlog>>
  \/ AfterPage /\ Observe /\ Tally /\ UNCHANGED <<supVars, client, keys, manager, task, errlog>>
  \/ ScNextColumn /\ Observe /\ Tally /\ UNCHANGED <<supVars, client, keys, manager, task, errlog>>
  \/ ScDoneColumns /\ Observe /\ Tally /\ UNCHANGED <<supVars, client, keys, manager, task, errlog>>
  \/ ScAfter /\ Observe /\ Tally /\ UNCHANGED <<supVars, client, keys, manager, task, errlog>>
  \/ PopFetch /\ Observe /\ Tally /\ UNCHANGED <<supVars, client, keys, manager, task, errlog>>
  \/ FetchSuccess /\ Observe /\ Tally /\ UNCHANGED <<supVars, client, keys, manager, task, errlog>>
  \/ DetailsExit /\ Observe /\ Tally /\ UNCHANGED <<supVars, client, keys, manager, task, errlog>>
  \/ ScDone /\ Observe /\ Tally /\ UNCHANGED <<supVars, client, keys, manager, task, errlog>>

DupSpec == DupInit /\ [][DupNext]_vars

\* start() of the Supervisor on a clean store, the Engine process it spawns
\* crawling the small site without a failure, and the liveness loop; no stop,
\* and 08:00 does not come
SpawnEngine(t) ==
  /\ thread[t].pc = "start_spawn"
  /\ runs = 0
  /\ procs' = procs \cup {nextPid}
  /\ nextPid' = nextPid + 1
  /\ adapter' = [adapter EXCEPT !.process = nextPid, !.status = "running"]
  /\ Goto(t, "start_monitor")
  /\ runs' = runs + 1
  /\ crawler' = [NoCrawler EXCEPT !.alive = TRUE, !.pc = "run"]
  /\ ev' = Ev("launch", None, 0, 0)
  /\ UNCHANGED <<storeVars, source, column_configs, PERPAGE, published, fires, client, keys, manager, task, errlog>>

StartInit == InitWith(SmallSource)

StartNext ==
  \/ StartAccepted("api") /\ thread["api"].calls = 0 /\ TallyStatus
  \/ StartStatus("api") /\ TallyStatus
  \/ SpawnEngine("api") /\ Observe /\ TallyStatus
  \/ StartMonitor("api") /\ TallyStatus
  \/ StartRunning("api") /\ TallyStatus
  \/ MonitorWrites /\ TallyStatus
  \/ RunStart /\ Observe /\ Tally /\ UNCHANGED <<supVars, client, keys, manager, task, errlog>>
  \/ RunCollect /\ Observe /\ Tally /\ UNCHANGED <<supVars, client, keys, manager, task, errlog>>
  \/ P1Enter /\ Observe /\ Tally /\ UNCHANGED <<supVars, client, keys, manager, task, errlog>>
  \/ ListRequest /\ Observe /\ Tally /\ UNCHANGED <<supVars, client, keys, manager, task, errlog>>
  \/ ListOk /\ Observe /\ Tally /\ UNCHANGED <<supVars, client, keys, manager, task, errlog>>
  \/ ItemPush /\ Observe /\ Tally /\ UNCHANGED <<supVars, client, keys, manager, task, errlog>>
  \/ ItemMark /\ Observe /\ Tally /\ UNCHANGED <<supVars, client, keys, manager, task, errlog>>
  \/ ItemsDone /\ Observe /\ Tally /\ UNCHANGED <<supVars, client, keys, manager, task, errlog>>
  \/ AfterPage /\ Observe /\ Tally /\ UNCHANGED <<supVars, client, keys, manager, task, errlog>>
  \/ CollectExit /\ Observe /\ Tally /\ UNCHANGED <<supVars, client, keys, manager, task, errlog>>
  \/ P1MarkComplete /\ Observe /\ Tally /\ UNCHANGED <<supVars, client, keys, manager, task, errlog>>
  \/ P1Done /\ Observe /\ Tally /\ UNCHANGED <<supVars, client, keys, manager, task, errlog>>
  \/ RunDetails /\ Observe /\ Tally /\ UNCHANGED <<supVars, client, keys, manager, task, errlog>>
  \/ PopFetch /\ Observe /\ Tally /\ UNCHANGED <<supVars, client, keys, manager, task, errlog>>
  \/ FetchSuccess /\ Observe /\ Tally /\ UNCHANGED <<supVars, client, keys, manager, task, errlog>>
  \/ DetailsExit /\ Observe /\ Tally /\ UNCHANGED <<supVars, client, keys, manager, task, errlog>>
  \/ RunCompleted /\ Observe /\ Tally /\ UNCHANGED <<supVars, client, keys, manager, task, errlog>>

StartSpec == StartInit /\ [][StartNext]_vars

\* one run on the small site, with stop requests, pause and resume, failed
\* requests and fetches, and the daily job; the Engine process is scheduled
\* fairly: a step of run() that can be taken is taken
StopInit == InitWith(SmallSource)

StopNext ==
  \/ Signal /\ UNCHANGED <<hist, supVars, client, keys, manager, task, errlog, tally>>
  \/ Pause /\ UNCHANGED <<hist, supVars, client, keys, manager, task, errlog>>
  \/ Resume /\ UNCHANGED <<hist, supVars, client, keys, manager, task, errlog>>
  \/ Launch /\ runs = 0 /\ Observe /\ UNCHANGED <<supVars, client, keys, manager, task, errlog, tally>>
  \/ RunStart /\ ~crawler.waiting /\ Observe /\ UNCHANGED <<supVars, client, keys, manager, task, errlog, tally>>
  \/ PauseWait /\ Observe /\ UNCHANGED <<supVars, client, keys, manager, task, errlog, tally>>
  \/ PauseWake /\ Observe /\ UNCHANGED <<supVars, client, keys, manager, task, errlog, tally>>
  \/ RunCollect /\ ~crawler.waiting /\ Observe /\ UNCHANGED <<supVars, client, keys, manager, task, errlog, tally>>
  \/ P1Done /\ ~crawler.waiting /\ Observe /\ UNCHANGED <<supVars, client, keys, manager, task, errlog, tally>>
  \/ P1Enter /\ ~crawler.waiting /\ Observe /\ UNCHANGED <<supVars, client, keys, manager, task, errlog, tally>>
  \/ CollectExit /\ ~crawler.waiting /\ Observe /\ UNCHANGED <<supVars, client, keys, manager, task, errlog, tally>>
  \/ ListRequest /\ ~crawler.waiting /\ Observe /\ UNCHANGED <<supVars, client, keys, manager, task, errlog, tally>>
  \/ ListFail /\ ~crawler.waiting /\ Observe /\ UNCHANGED <<supVars, client, keys, manager, task, errlog, tally>>
  \/ ListOk /\ ~crawler.waiting /\ Observe /\ UNCHANGED <<supVars, client, keys, manager, task, errlog, tally>>
  \/ ItemsDone /\ ~crawler.waiting /\ Observe /\ UNCHANGED <<supVars, client, keys, manager, task, errlog, tally>>
  \/ ItemVisited /\ ~crawler.waiting /\ Observe /\ UNCHANGED <<supVars, client, keys, manager, task, errlog, tally>>
  \/ ItemPush /\ ~crawler.waiting /\ Observe /\ UNCHANGED <<supVars, client, keys, manager, task, errlog, tally>>
  \/ ItemMark /\ ~crawler.waiting /\ Observe /\ UNCHANGED <<supVars, client, keys, manager, task, errlog, tally>>
  \/ AfterPage /\ ~crawler.waiting /\ Observe /\ UNCHANGED <<supVars, client, keys, manager, task, errlog, tally>>
  \/ P1MarkComplete /\ ~crawler.waiting /\ Observe /\ UNCHANGED <<supVars, client, keys, manager, task, errlog, tally>>
  \/ RunStopped /\ ~crawler.waiting /\ Observe /\ UNCHANGED <<supVars, client, keys, manager, task, errlog, tally>>
  \/ RunDetails /\ ~crawler.waiting /\ Observe /\ UNCHANGED <<supVars, client, keys, manager, task, errlog, tally>>
  \/ RunNoDetails /\ ~crawler.waiting /\ Observe /\ UNCHANGED <<supVars, client, keys, manager, task, errlog, tally>>
  \/ DetailsExit /\ ~crawler.waiting /\ Observe /\ UNCHANGED <<supVars, client, keys, manager, task, errlog, tally>>
  \/ PopFetch /\ ~crawler.waiting /\ Observe /\ UNCHANGED <<supVars, client, keys, manager, task, errlog, tally>>
  \/ FetchSuccess /\ ~crawler.waiting /\ Observe /\ UNCHANGED <<supVars, client, keys, manager, task, errlog, tally>>
  \/ FetchFailRetry /\ ~crawler.waiting /\ Observe /\ UNCHANGED <<supVars, client, keys, manager, task, errlog, tally>>
  \/ FetchFailTrip /\ ~crawler.waiting /\ Observe /\ UNCHANGED <<supVars, client, keys, manager, task, errlog, tally>>
  \/ RunCompleted /\ ~crawler.waiting /\ Observe /\ UNCHANGED <<supVars, client, keys, manager, task, errlog, tally>>
  \/ RunNotCompleted /\ ~crawler.waiting /\ Observe /\ UNCHANGED <<supVars, client, keys, manager, task, errlog, tally>>
  \/ SchedulerExit /\ ~crawler.waiting /\ Observe /\ UNCHANGED <<supVars, client, keys, manager, task, errlog, tally>>
  \/ JobRescan /\ ~crawler.waiting /\ Observe /\ UNCHANGED <<supVars, client, keys, manager, task, errlog, tally>>
  \/ ScEnter /\ ~crawler.waiting /\ Observe /\ UNCHANGED <<supVars, client, keys, manager, task, errlog, tally>>
  \/ ScNextColumn /\ ~crawler.waiting /\ Observe /\ UNCHANGED <<supVars, client, keys, manager, task, errlog, tally>>
  \/ ScDoneColumns /\ ~crawler.waiting /\ Observe /\ UNCHANGED <<supVars, client, keys, manager, task, errlog, tally>>
  \/ ScAfter /\ ~crawler.waiting /\ Observe /\ UNCHANGED <<supVars, client, keys, manager, task, errlog, tally>>
  \/ ScDone /\ ~crawler.waiting /\ Observe /\ UNCHANGED <<supVars, client, keys, manager, task, errlog, tally>>
  \/ RunFinally /\ ~crawler.waiting /\ Observe /\ UNCHANGED <<supVars, client, keys, manager, task, errlog, tally>>

\* the steps of the Engine process itself
EngineStep ==
  /\ crawler.alive
  /\ \/ PauseWake
     \/ /\ ~crawler.waiting
        /\ \/ PauseWait
           \/ RunStart
           \/ RunCollect
           \/ P1Done
           \/ P1Enter
           \/ CollectExit
           \/ ListRequest
           \/ ListFail
           \/ ListOk
           \/ ItemsDone
           \/ ItemVisited
           \/ ItemPush
           \/ ItemMark
           \/ AfterPage
           \/ P1MarkComplete
           \/ RunStopped
           \/ RunDetails
           \/ RunNoDetails
           \/ DetailsExit
           \/ PopFetch
           \/ FetchSuccess
           \/ FetchFailRetry
           \/ FetchFailTrip
           \/ RunCompleted
           \/ RunNotCompleted
           \/ SchedulerExit
           \/ JobRescan
           \/ ScEnter
           \/ ScNextColumn
           \/ ScDoneColumns
           \/ ScAfter
           \/ ScDone
           \/ RunFinally
  /\ Observe /\ UNCHANGED <<supVars, client, keys, manager, task, errlog, tally>>

StopSpec == StopInit /\ [][StopNext]_vars /\ WF_vars(EngineStep)

\* start() of the Supervisor on a clean store, the Engine process it spawns,
\* which may fail inside a phase and end, and the liveness loop; no stop
RelayInit == InitWith(SmallSource)

RelayNext ==
  \/ StartAccepted("api") /\ thread["api"].calls = 0 /\ UNCHANGED tally
  \/ StartStatus("api") /\ UNCHANGED tally
  \/ SpawnEngine("api") /\ Observe /\ UNCHANGED tally
  \/ StartMonitor("api") /\ UNCHANGED tally
  \/ StartRunning("api") /\ UNCHANGED tally
  \/ MonitorWrites /\ UNCHANGED tally
  \/ MonitorEnds /\ UNCHANGED tally
  \/ ProcessExits /\ crawler.pc = "exited" /\ UNCHANGED tally
  \/ RunStart /\ Observe /\ UNCHANGED <<supVars, client, keys, manager, task, errlog, tally>>
  \/ RunCollect /\ Observe /\ UNCHANGED <<supVars, client, keys, manager, task, errlog, tally>>
  \/ P1Enter /\ Observe /\ UNCHANGED <<supVars, client, keys, manager, task, errlog, tally>>
  \/ ListRequest /\ Observe /\ UNCHANGED <<supVars, client, keys, manager, task, errlog, tally>>
  \/ ListOk /\ Observe /\ UNCHANGED <<supVars, client, keys, manager, task, errlog, tally>>
  \/ ItemPush /\ Observe /\ UNCHANGED <<supVars, client, keys, manager, task, errlog, tally>>
  \/ ItemMark /\ Observe /\ UNCHANGED <<supVars, client, keys, manager, task, errlog, tally>>
  \/ ItemsDone /\ Observe /\ UNCHANGED <<supVars, client, keys, manager, task, errlog, tally>>
  \/ AfterPage /\ Observe /\ UNCHANGED <<supVars, client, keys, manager, task, errlog, tally>>
  \/ CollectExit /\ Observe /\ UNCHANGED <<supVars, client, keys, manager, task, errlog, tally>>
  \/ P1MarkComplete /\ Observe /\ UNCHANGED <<supVars, client, keys, manager, task, errlog, tally>>
  \/ P1Done /\ Observe /\ UNCHANGED <<supVars, client, keys, manager, task, errlog, tally>>
  \/ RunDetails /\ Observe /\ UNCHANGED <<supVars, client, keys, manager, task, errlog, tally>>
  \/ PopFetch /\ Observe /\ UNCHANGED <<supVars, client, keys, manager, task, errlog, tally>>
  \/ FetchSuccess /\ Observe /\ UNCHANGED <<supVars, client, keys, manager, task, errlog, tally>>
  \/ DetailsExit /\ Observe /\ UNCHANGED <<supVars, client, keys, manager, task, errlog, tally>>
  \/ RunCompleted /\ Observe /\ UNCHANGED <<supVars, client, keys, manager, task, errlog, tally>>
  \/ PhaseRaises /\ Observe /\ UNCHANGED <<supVars, client, keys, manager, task, errlog, tally>>
  \/ RunExcept /\ Observe /\ UNCHANGED <<supVars, client, keys, manager, task, errlog, tally>>
  \/ RunFinally /\ Observe /\ UNCHANGED <<supVars, client, keys, manager, task, errlog, tally>>

RelaySpec == RelayInit /\ [][RelayNext]_vars

\* the Supervisor with pause() and resume() called from the API thread
PauseNext ==
  \/ SuspendRefused("api") /\ UNCHANGED tally
  \/ \E t \in Threads : StartRefused(t) /\ UNCHANGED tally
  \/ \E t \in Threads : StartAccepted(t) /\ UNCHANGED tally
  \/ \E t \in Threads : StartStatus(t) /\ UNCHANGED tally
  \/ \E t \in Threads : StartSpawn(t) /\ UNCHANGED tally
  \/ \E t \in Threads : StartFailed(t) /\ UNCHANGED tally
  \/ \E t \in Threads : StartMonitor(t) /\ UNCHANGED tally
  \/ \E t \in Threads : StartRunning(t) /\ UNCHANGED tally
  \/ StopStatus("api") /\ UNCHANGED tally
  \/ StopTerminate("api") /\ UNCHANGED tally
  \/ StopMonitor("api") /\ UNCHANGED tally
  \/ StopClear("api") /\ UNCHANGED tally
  \/ StopStopped("api") /\ UNCHANGED tally
  \/ MonitorWrites /\ UNCHANGED tally
  \/ MonitorEnds /\ UNCHANGED tally
  \/ ProcessExits /\ UNCHANGED tally
  \/ \E op \in {"pause", "resume"} : SuspendCall("api", op) /\ UNCHANGED tally
  \/ SuspendRaises("api") /\ UNCHANGED tally

PauseSpec == Init /\ [][PauseNext]_vars

\* the Engine while the connection to the store comes and goes: one run over a
\* site of one section of two items, with a stop request at any time
OutageSource == << <<1, 2>> >>
OutageInit == InitWith(OutageSource)

OutageNext ==
  \/ StoreDown
  \/ StoreUp
  \/ Signal /\ UNCHANGED <<hist, supVars, client, keys, manager, task, errlog, tally>>
  \/ Launch /\ runs = 0 /\ Observe /\ UNCHANGED <<supVars, client, keys, manager, task, errlog, tally>>
  \/ RunStart /\ Observe /\ UNCHANGED <<supVars, client, keys, manager, task, errlog, tally>>
  \/ RunCollect /\ Observe /\ UNCHANGED <<supVars, client, keys, manager, task, errlog, tally>>
  \/ P1Done /\ Observe /\ UNCHANGED <<supVars, client, keys, manager, task, errlog, tally>>
  \/ P1Enter /\ Observe /\ UNCHANGED <<supVars, client, keys, manager, task, errlog, tally>>
  \/ CollectExit /\ Observe /\ UNCHANGED <<supVars, client, keys, manager, task, errlog, tally>>
  \/ ListRequest /\ Observe /\ UNCHANGED <<supVars, client, keys, manager, task, errlog, tally>>
  \/ ListOk /\ Observe /\ UNCHANGED <<supVars, client, keys, manager, task, errlog, tally>>
  \/ ItemsDone /\ Observe /\ UNCHANGED <<supVars, client, keys, manager, task, errlog, tally>>
  \/ ItemPush /\ Observe /\ UNCHANGED <<supVars, client, keys, manager, task, errlog, tally>>
  \/ ItemMark /\ Observe /\ UNCHANGED <<supVars, client, keys, manager, task, errlog, tally>>
  \/ AfterPage /\ Observe /\ UNCHANGED <<supVars, client, keys, manager, task, errlog, tally>>
  \/ P1MarkComplete /\ Observe /\ UNCHANGED <<supVars, client, keys, manager, task, errlog, tally>>
  \/ RunStopped /\ Observe /\ UNCHANGED <<supVars, client, keys, manager, task, errlog, tally>>
  \/ RunDetails /\ Observe /\ UNCHANGED <<supVars, client, keys, manager, task, errlog, tally>>
  \/ RunNoDetails /\ Observe /\ UNCHANGED <<supVars, client, keys, manager, task, errlog, tally>>
  \/ DetailsExit /\ Observe /\ UNCHANGED <<supVars, client, keys, manager, task, errlog, tally>>
  \/ PopFetch /\ Observe /\ UNCHANGED <<supVars, client, keys, manager, task, errlog, tally>>
  \/ FetchSuccess /\ Observe /\ UNCHANGED <<supVars, client, keys, manager, task, errlog, tally>>
  \/ RunCompleted /\ Observe /\ UNCHANGED <<supVars, client, keys, manager, task, errlog, tally>>
  \/ RunNotCompleted /\ Observe /\ UNCHANGED <<supVars, client, keys, manager, task, errlog, tally>>
  \/ SchedulerExit /\ Observe /\ UNCHANGED <<supVars, client, keys, manager, task, errlog, tally>>
  \/ RunFinally /\ Observe /\ UNCHANGED <<supVars, client, keys, manager, task, errlog, tally>>

OutageSpec == OutageInit /\ [][OutageNext]_vars

\* the resets of the store, at any time of one run over a site of two
\* sections, while the other keys are written
ResetSource == << <<1>>, <<2>> >>
ResetInit == InitWith(ResetSource)

ResetNext ==
  \/ \E k \in OtherKeys : WriteKey(k)
  \/ cleanup
  \/ reset_state
  \/ Launch /\ runs = 0 /\ Observe /\ UNCHANGED <<supVars, client, keys, manager, task, errlog, tally>>
  \/ RunStart /\ Observe /\ UNCHANGED <<supVars, client, keys, manager, task, errlog, tally>>
  \/ RunCollect /\ Observe /\ UNCHANGED <<supVars, client, keys, manager, task, errlog, tally>>
  \/ P1Enter /\ Observe /\ UNCHANGED <<supVars, client, keys, manager, task, errlog, tally>>
  \/ ListRequest /\ Observe /\ UNCHANGED <<supVars, client, keys, manager, task, errlog, tally>>
  \/ ListOk /\ Observe /\ UNCHANGED <<supVars, client, keys, manager, task, errlog, tally>>
  \/ ItemPush /\ Observe /\ UNCHANGED <<supVars, client, keys, manager, task, errlog, tally>>
  \/ ItemMark /\ Observe /\ UNCHANGED <<supVars, client, keys, manager, task, errlog, tally>>
  \/ ItemsDone /\ Observe /\ UNCHANGED <<supVars, client, keys, manager, task, errlog, tally>>
  \/ AfterPage /\ Observe /\ UNCHANGED <<supVars, client, keys, manager, task, errlog, tally>>
  \/ CollectExit /\ Observe /\ UNCHANGED <<supVars, client, keys, manager, task, errlog, tally>>
  \/ P1MarkComplete /\ Observe /\ UNCHANGED <<supVars, client, keys, manager, task, errlog, tally>>
  \/ P1Done /\ Observe /\ UNCHANGED <<supVars, client, keys, manager, task, errlog, tally>>
  \/ RunDetails /\ Observe /\ UNCHANGED <<supVars, client, keys, manager, task, errlog, tally>>
  \/ PopFetch /\ Observe /\ UNCHANGED <<supVars, client, keys, manager, task, errlog, tally>>
  \/ FetchSuccess /\ Observe /\ UNCHANGED <<supVars, client, keys, manager, task, errlog, tally>>
  \/ DetailsExit /\ Observe /\ UNCHANGED <<supVars, client, keys, manager, task, errlog, tally>>
  \/ RunCompleted /\ Observe /\ UNCHANGED <<supVars, client, keys, manager, task, errlog, tally>>

ResetSpec == ResetInit /\ [][ResetNext]_vars

\* the statistics: get_stats and background refreshes from several threads,
\* while the store comes and goes
StatsNext ==
  \/ StoreDown
  \/ StoreUp
  \/ \E w \in Workers : GetStatsRead(w)
  \/ \E w \in Workers : GetStatsStore(w)
  \/ \E w \in Workers : RefreshBegin(w)
  \/ \E w \in Workers : RefreshEnds(w)

StatsSpec == Init /\ [][StatsNext]_vars

\* the Scheduler: the task fires when due, its start() runs in the scheduler
\* thread while time passes, and the Engine process ends at some time
InExecute == task.at = "execute" /\ thread["scheduler"].calls = task.calls
SchedStep ==
  \/ TaskFire
  \/ TaskRearm
  \/ InExecute /\ StartRefused("scheduler") /\ UNCHANGED tally
  \/ InExecute /\ StartAccepted("scheduler") /\ UNCHANGED tally
  \/ StartStatus("scheduler") /\ UNCHANGED tally
  \/ StartSpawn("scheduler") /\ UNCHANGED tally
  \/ StartFailed("scheduler") /\ UNCHANGED tally
  \/ StartMonitor("scheduler") /\ UNCHANGED tally
  \/ StartRunning("scheduler") /\ UNCHANGED tally

SchedNext ==
  \/ Clock
  \/ TaskFire
  \/ TaskRearm
  \/ InExecute /\ StartRefused("scheduler") /\ UNCHANGED tally
  \/ InExecute /\ StartAccepted("scheduler") /\ UNCHANGED tally
  \/ StartStatus("scheduler") /\ UNCHANGED tally
  \/ StartSpawn("scheduler") /\ UNCHANGED tally
  \/ StartFailed("scheduler") /\ UNCHANGED tally
  \/ StartMonitor("scheduler") /\ UNCHANGED tally
  \/ StartRunning("scheduler") /\ UNCHANGED tally
  \/ MonitorEnds /\ UNCHANGED tally
  \/ ProcessExits /\ UNCHANGED tally

SchedSpec == Init /\ [][SchedNext]_vars /\ WF_vars(SchedStep)

(***************************************************************************)
(* Properties                                                              *)
(***************************************************************************)
Reverse(s) == [i \in 1..Len(s) |-> s[Len(s) + 1 - i]]
Pops == {"pop_fetch", "pop_drop"}

\* C1 (as stated): under every interleaving of start(), stop() and the
\* Scheduler's start(), at most one Engine process of the identity is alive.
C1_AtMostOneLiveProcess == Cardinality(procs) <= 1

\* C2 (as stated): at a hard kill in Phase 2, every URL that is visited and not
\* crawled (and whose fetch did not end in a benign Skip) is still in the
\* queue; a visited URL is never pushed again, so one that is missing is lost.
C2_KillLosesNoUrl ==
  ev.op = "kill" /\ ev.n = 2 =>
    \A u \in visited \ (crawled \cup hist.skipped) : u \in Range(queue)

\* C3: Phase 2 never fetches a popped record whose URL is in the crawled set;
\* such a record is dropped, and no fetch begins.
C3_NoFetchOfCrawled ==
  /\ crawler.pc = "p2_fetch" => crawler.link \notin crawled
  /\ ev.op = "pop_drop" => ev.url \in crawled /\ crawler.pc = "p2_loop"
  /\ ev.op = "pop_fetch" => ev.url \notin crawled /\ crawler.link = ev.url

\* C3, its case: a popped record was dropped because its URL is crawled
C3_Dropped == ev.op = "pop_drop"

C5_TripEndsInError ==
  crawler.pc = "exited" /\ hist.tripped => status = "error" /\ reason = "too_many_errors"

\* C6 (as stated): when the breaker trips, the record whose failure was the
\* 100th is still in the queue.
C6_TrippedRecordStillQueued == ev.op = "trip" => ev.url \in Range(queue)

\* C7 (as stated): after the breaker tripped, the same run pops no further record.
C7_NoPopAfterTrip == ~(hist.tripped /\ ev.op \in Pops)

\* C8: every Success and every Skip resets the counter to 0; the counter is the
\* number of failures since the last Success or Skip, and the breaker trips
\* only when that number is 100.
C8_CounterReset ==
  /\ ev.op \in {"success", "skip"} => crawler.consecutive_errors = 0
  /\ crawler.pc \in {"p2_loop", "p2_fetch"} => crawler.consecutive_errors = hist.streak
  /\ ev.op = "trip" => hist.streak = MAX_CONSECUTIVE_ERRORS
  /\ hist.streak <= MAX_CONSECUTIVE_ERRORS

\* C8, its case: 99 failures, then a Skip, and the counter is 0 again
C8_ResetAfter99 ==
  ev.op = "skip" /\ ev.n = MAX_CONSECUTIVE_ERRORS - 1 /\ crawler.consecutive_errors = 0

\* C9: every pop takes the oldest record, where a failed record counts as
\* pushed anew at its failure: the queue is the arrivals in order, so a failed
\* record is fetched again only after all that were queued at its failure.
C9_FifoRetryTail ==
  /\ hist.oldest
  /\ Reverse(queue) = hist.arrival
  /\ ev.op = "fail" => queue # <<>> /\ queue[1] = ev.url

\* C9, its case: pushed 1, 2, 3; the fetch of 2 failed; completed in order 1, 3, 2
C9_OrderACB == hist.completed = <<1, 3, 2>>

\* C10 (as stated): no list request is issued for a section marked complete.
C10_NoRequestWhenComplete == ev.op = "list_request" => ~complete[ev.col]

\* C10 (amended): link collection of the run (Phase 1) issues no list request
\* for a section marked complete; only the daily re-scan of recurring mode does.
C10_Phase1NoRequestWhenComplete ==
  ev.op = "list_request" /\ ~crawler.stop_on_duplicates => ~complete[ev.col]

\* C10, its case: a section is complete and Phase 1 requests a page of another
C10_OtherSectionRequested ==
  /\ ev.op = "list_request" /\ ~crawler.stop_on_duplicates
  /\ \E c \in Cols : c # ev.col /\ complete[c]

\* C11 (as stated): a reader of get_status never gets a version lower than one
\* it got before, whatever writes, resets and outages happen between its calls.
C11_NoVersionDecrease == client.reader.seen >= client.reader.best

\* C12 (as stated): every set_status that returned True added exactly one to
\* the stored version, so the version is the number of such calls.
C12_EachWriteAddsOne == version = client.okWrites

\* C13 (as stated): run() enters recurring mode only when no section was left
\* early on failed requests and the breaker did not trip in this run.
C13_RecurringOnlyAfterFullCompletion ==
  ev.op = "recurring" => ~hist.aborted /\ ~hist.tripped

CaughtUp == (\A c \in Cols : complete[c]) /\ queue = <<>>

\* C14: when every section is complete and the queue is empty at the start of
\* a run, or at the end of a run that was not stopped, the next step of run()
\* enters recurring mode; and recurring mode is entered only in such a state.
C14_RecurringIffCaughtUp ==
  /\ [](ev.op = "recurring" => CaughtUp /\ crawler.pc = "sched")
  /\ [][ /\ crawler.alive /\ crawler'.alive /\ CaughtUp
         /\ crawler'.pc # crawler.pc
         /\ \/ crawler.pc = "run_check"
            \/ crawler.pc = "completed" /\ ~crawler.should_stop
         => crawler'.pc = "sched" /\ ev'.op = "recurring" ]_vars

\* C14, its case: the run crawled the whole site and entered recurring mode
C14_ArmedAfterFullCrawl ==
  ev.op = "recurring" /\ crawled = {1, 2, 3} /\ hist.completed # <<>>

\* C19: a failure raised inside a phase never leaves run(): it is caught, the
\* store then holds status error with the failure message, and run() returns
\* False (exit code 1); the error status is what the run leaves behind unless
\* a stop had been requested too.
C19_FailureCaughtAndRecorded ==
  /\ crawler.pc = "except" => crawler.alive
  /\ ev.op = "caught" =>
       status = "error" /\ errorMsg = "error_msg" /\ ~crawler.success
  /\ ev.op = "exit" /\ hist.raised => ev.n = 1 /\ errorMsg = "error_msg"
  /\ ev.op = "exit" /\ hist.raised /\ ~hist.stopped => status = "error"
  /\ ev.op = "exit" /\ ~hist.raised => ev.n = 0

\* C19, its case: a run that failed in a phase has returned
C19_FailedRunReturned ==
  ev.op = "exit" /\ hist.raised /\ ~hist.stopped /\ crawler.pc = "exited"

AllUrls == UNION {Range(source[c]) : c \in Cols}

\* C17 (as stated): from checkpoint 0 with page size 15, Phase 1 has issued 3
\* list requests for the section of 30 items when it marks it complete, and 1
\* for the section of 10 items.
C17_ThreeRequestsAndOne ==
  /\ complete[1] => tally.requests[1] = 3
  /\ complete[2] => tally.requests[2] = 1

\* C17 (amended): from checkpoint 0 with page size 15, Phase 1 issues exactly 2
\* list requests for the section of 30 items (no trailing request) and exactly
\* 1 for the section of 10 items.
C17_TwoRequestsAndOne ==
  /\ tally.requests[1] <= 2 /\ tally.requests[2] <= 1
  /\ complete[1] => tally.requests[1] = 2
  /\ complete[2] => tally.requests[2] = 1

\* C17, its case: Phase 1 has walked both sections
C17_BothSectionsWalked ==
  complete[1] /\ complete[2] /\ tally.requests = <<2, 1>> /\ lastPage = <<30, 10>>

\* C18: with the store reachable, every request and fetch succeeding and
\* distinct URLs, one run from a clean state pushes exactly one record per item,
\* and ends with visited = crawled = all the URLs and an empty queue (40 pushed,
\* 40 visited, 40 crawled, 0 queued for sections of 30 and 10 items).
C18_EveryItemOnce ==
  /\ hist.again = {}
  /\ hist.pushed \subseteq AllUrls
  /\ ev.op = "recurring" =>
       /\ hist.pushed = AllUrls /\ visited = AllUrls /\ crawled = AllUrls
       /\ Cardinality(visited) = 40 /\ Len(hist.completed) = 40
       /\ queue = <<>>

\* C18, its case: the run has ended, after 40 fetches
C18_RunEndedWithForty ==
  ev.op = "recurring" /\ Cardinality(crawled) = 40 /\ status = "stopped"

\* C15: in the re-scan of recurring mode the scan of a section stops as soon as
\* the run of consecutive already-visited URLs reaches the limit of 100: from
\* then on no item is observed and no page requested, and when a first page of
\* at least 100 items shows no new URL, the section is left after exactly 100
\* duplicate observations, with nothing pushed.
C15_StopsAtHundredDuplicates ==
  /\ crawler.stop_on_duplicates =>
       /\ crawler.consecutive_duplicates <= MAX_DUPLICATES
       /\ crawler.pc \in {"cl_req", "cl_item", "cl_mark"} =>
            crawler.consecutive_duplicates < MAX_DUPLICATES
  /\ /\ crawler.stop_on_duplicates /\ crawler.pc = "cl_ret"
     /\ crawler.startrecord = 0 /\ crawler.items_count >= MAX_DUPLICATES
     /\ tally.news = 0
     => /\ tally.dups = MAX_DUPLICATES
        /\ crawler.consecutive_duplicates = MAX_DUPLICATES
        /\ crawler.links_count = 0 /\ queue = <<>>

\* C15, its case: page 1 held more than 100 visited URLs, and the section is left
C15_LeftAfterHundred ==
  /\ crawler.stop_on_duplicates /\ crawler.pc = "cl_ret"
  /\ crawler.startrecord = 0 /\ crawler.items_count > MAX_DUPLICATES
  /\ tally.dups = MAX_DUPLICATES /\ tally.news = 0

E2EPath ==
  << [status |-> "idle", reason |-> NoReason],
     [status |-> "starting", reason |-> NoReason],
     [status |-> "running", reason |-> NoReason],
     [status |-> "stopped", reason |-> "completed"] >>

\* C16 (as stated): in a run started by start() from a clean state, in which
\* every request and fetch succeeds, the stored status goes through idle,
\* starting, running, stopped (reason completed) in this order, and nothing
\* follows stopped (reason completed).
C16_StatusPathEndsCompleted ==
  /\ Len(tally.path) <= Len(E2EPath)
  /\ tally.path = SubSeq(E2EPath, 1, Len(tally.path))

\* C20: once a stop is requested during a run, wherever the Engine is (the
\* pause wait and the wait of recurring mode included), it starts no new list
\* request and no new fetch, run() eventually returns, and the status it
\* leaves is stopped with reason user_stopped.
C20_StopEndsRun ==
  /\ [][ crawler.alive /\ crawler.should_stop /\ crawler.pc # "run"
         => /\ crawler'.pc \in {"cl_req", "p2_fetch"} => crawler'.pc = crawler.pc
            /\ ev'.op \in {"list_request", "pop_fetch", "job"} => ev' = ev ]_vars
  /\ [](ev.op = "exit" /\ hist.stopped => status = "stopped" /\ reason = "user_stopped")
  /\ (crawler.alive /\ crawler.should_stop /\ crawler.pc # "run")
       ~> (crawler.pc = "exited" /\ hist.stopped)

\* C20, its case: the stop came while the Engine was held by a pause that was
\* never resumed, and run() has returned
C20_StoppedWhilePaused ==
  /\ crawler.pc = "exited" /\ hist.stopped /\ hist.waited /\ paused
  /\ status = "stopped" /\ reason = "user_stopped"

\* C21: while the paused flag is set and no stop is requested, the Engine
\* begins no list request, pushes no record and pops no record; only the unit
\* of work under way when the flag was set is finished (the page requested,
\* the item being pushed and marked, the record being fetched and pushed again
\* on failure).
C21_PausedEngineHolds ==
  [][ /\ crawler.alive /\ ~crawler.should_stop
      /\ crawler.should_pause \/ paused
      /\ crawler'.alive
      => /\ crawler'.pc = "cl_req" => crawler.pc = "cl_req"
         /\ crawler'.pc = "p2_fetch" => crawler.pc = "p2_fetch"
         /\ crawler'.pc = "cl_mark" => crawler.pc = "cl_mark"
         /\ queue' # queue => crawler.pc = "p2_fetch" ]_vars

\* C21, its case: the Engine is held in the pause wait with a record queued
C21_HeldWithRecordQueued ==
  /\ crawler.alive /\ crawler.waiting /\ paused /\ ~crawler.should_stop
  /\ crawler.pc = "p2_loop" /\ Len(queue) > 0

\* stop() has returned and no start() has been called since or is under way:
\* the adapter's own status is the one stop() left, and no thread is in a call
StopReturned ==
  /\ \A t \in Threads : thread[t].pc = "idle"
  /\ thread["api"].calls > 0
  /\ adapter.status = "idle" /\ adapter.process = None

\* C22 (as stated): after stop() has returned, and until the next start(), no
\* Engine process of the identity is alive, the liveness loop writes no more
\* and the stored status is stopped.
C22_StoppedAfterStop ==
  StopReturned => procs = {} /\ status = "stopped"

\* C23 (as stated): once the Engine has recorded a failure as status error, no
\* write of the Supervisor (the running write at the end of start(), the
\* running writes of the liveness loop) replaces it: the stored status stays
\* error.
C23_ErrorStaysVisible == hist.raised => status = "error"

\* C24 (as stated): when no process of the identity is alive (and no start()
\* or stop() is under way), get_status reports stopped if the stored status is
\* running, paused or stopping, and it never reports running, paused or
\* stopping.
C24_NoPhantomLiveView ==
  procs = {} /\ (\A t \in Threads : thread[t].pc = "idle") =>
    /\ get_status.status \notin {"running", "paused", "stopping"}
    /\ ~get_status.running
    /\ status \in {"running", "paused", "stopping"} => get_status.status = "stopped"

\* C25: start() called while the process the adapter holds is alive returns
\* False and changes nothing: no process is spawned, and the stored status,
\* the version and the pid (the handle) are as they were.
C25_RefusedStartChangesNothing ==
  [][ \A t \in Threads :
        /\ ProcessAlive
        /\ thread[t].pc = "idle" /\ thread'[t] # thread[t]
        /\ thread'[t].pc # "stop_terminate"
        => /\ thread'[t].pc = "idle" /\ thread'[t].ret = "False"
           /\ UNCHANGED <<adapter, procs, nextPid, storeVars>> ]_vars

\* C25, its case: a start() was refused, the process still alive
C25_StartRefusedWhileAlive ==
  \E t \in Threads :
    /\ thread[t].pc = "idle" /\ thread[t].ret = "False"
    /\ ProcessAlive /\ adapter.status = "running" /\ Cardinality(procs) = 1

\* C26 (as stated): when pause() called on a live process returns, the paused
\* flag of the store is set, and when resume() called on a live process
\* returns, it is cleared, whether or not the process could be suspended.
C26_PauseSetsStoreFlag ==
  [][ /\ thread["api"].pc = "pause" /\ thread'["api"].pc = "idle" => paused'
      /\ thread["api"].pc = "resume" /\ thread'["api"].pc = "idle" => ~paused' ]_vars

C28_SoftResetKeepsCrawlState ==
  [][ reset_state =>
        /\ UNCHANGED <<visited, crawled, lastPage, complete, queue>>
        /\ status' = "idle" /\ "progress" \notin keys' /\ "errors" \notin keys' ]_vars

\* a soft reset has just wiped a stored status and an error history while the
\* sets, a checkpoint, a complete flag and the queue held something
C28_SoftResetOverCrawlState ==
  /\ status = "idle" /\ version > 0 /\ "errors" \notin keys /\ "stats" \in keys
  /\ visited # {} /\ crawled # {} /\ queue # <<>>
  /\ \E c \in Cols : lastPage[c] > 0 /\ complete[c]
  /\ crawler.pc = "p2_loop"

\* C29 (as stated): after a full reset (cleanup) nothing of the identity is
\* left: the status reads idle, every checkpoint is 0 and not complete, the
\* sets, the queue and the error history are empty, and the stats snapshot is
\* gone.
C29_FullResetLeavesNothing ==
  [][ cleanup =>
        /\ status' = "idle"
        /\ \A c \in Cols : lastPage'[c] = 0 /\ ~complete'[c]
        /\ visited' = {} /\ crawled' = {} /\ queue' = <<>>
        /\ "errors" \notin keys'
        /\ "stats" \notin keys' ]_vars

\* C30 (as stated): at no time do two threads recompute the statistics of the
\* identity, however many get_stats calls and background refreshes are under way.
C30_OneRecomputationAtATime ==
  Cardinality({w \in Workers : manager.worker[w].pc = "scan"}) <= 1

\* C31: every firing of the scheduled task is followed by its re-arming, also
\* when start() returned False; the new next-run time is later than the time
\* of the firing and than the scheduled time fired for, and no scheduled time
\* is fired for twice.
C31_RearmedStrictlyLater ==
  /\ [][ task.at = "execute" /\ task'.at = "loop"
           => task'.next_run > task.firedAt /\ task'.next_run > task.firedFor ]_vars
  /\ [](\A i, j \in DOMAIN task.fired : i < j => task.fired[i] < task.fired[j])
  /\ (task.at = "execute" ~> task.at = "loop")

\* the task has fired twice and is armed again after a start() that returned False
C31_RearmedAfterRefusedStart ==
  /\ Len(task.fired) = 2 /\ task.at = "loop" /\ task.status = "completed"
  /\ thread["scheduler"].ret = "False"
  /\ task.next_run > task.firedAt

\* C32 (as stated): at every moment the URL of every record pushed to the
\* LinkQueue is in VisitedSet, and CrawledSet is a subset of VisitedSet.
C32_VisitedCoversPushedAndCrawled ==
  /\ hist.pushed \subseteq visited
  /\ Range(queue) \subseteq visited
  /\ crawled \subseteq visited

\* C33 (as stated): Phase 1 marks a section complete only when its range is
\* exhausted: not after 3 consecutive failed requests and not when a stop
\* request ended the collection before the end of the range.
C33_CompleteOnlyOnExhaustion ==
  [][ ev'.op = "mark_complete"
        => /\ crawler.consecutive_empty < MAX_CONSECUTIVE_EMPTY
           /\ lastPage[crawler.col] >= crawler.end_records ]_vars

(***************************************************************************)
(* Link collection over a long section.  The first section has five        *)
(* items, the second one; list requests fail or succeed, stop is asked at  *)
(* any moment, the Engine is killed between two pages and launched again, *)
(* and once caught up it re-scans the sections at 08:00.                   *)
(***************************************************************************)
\* the site of CollectSpec
LongSection == << <<1, 2, 3, 4, 5>>, <<6>> >>

CollectNext ==
  \/ Launch /\ Observe /\ UNCHANGED <<supVars, client, keys, manager, task, errlog, tally>>
  \/ Kill /\ crawler.pc = "cl_loop" /\ Observe /\ UNCHANGED <<supVars, client, keys, manager, task, errlog, tally>>
  \/ Signal /\ UNCHANGED <<hist, supVars, client, keys, manager, task, errlog, tally>>
  \/ RunStart /\ Observe /\ UNCHANGED <<supVars, client, keys, manager, task, errlog, tally>>
  \/ RunCollect /\ Observe /\ UNCHANGED <<supVars, client, keys, manager, task, errlog, tally>>
  \/ RunNoCollect /\ Observe /\ UNCHANGED <<supVars, client, keys, manager, task, errlog, tally>>
  \/ P1Done /\ Observe /\ UNCHANGED <<supVars, client, keys, manager, task, errlog, tally>>
  \/ P1Skip /\ Observe /\ UNCHANGED <<supVars, client, keys, manager, task, errlog, tally>>
  \/ P1Enter /\ Observe /\ UNCHANGED <<supVars, client, keys, manager, task, errlog, tally>>
  \/ CollectExit /\ Observe /\ UNCHANGED <<supVars, client, keys, manager, task, errlog, tally>>
  \/ ListRequest /\ Observe /\ UNCHANGED <<supVars, client, keys, manager, task, errlog, tally>>
  \/ ListFail /\ Observe /\ UNCHANGED <<supVars, client, keys, manager, task, errlog, tally>>
  \/ ListOk /\ Observe /\ UNCHANGED <<supVars, client, keys, manager, task, errlog, tally>>
  \/ ItemsDone /\ Observe /\ UNCHANGED <<supVars, client, keys, manager, task, errlog, tally>>
  \/ ItemPush /\ Observe /\ UNCHANGED <<supVars, client, keys, manager, task, errlog, tally>>
  \/ ItemMark /\ Observe /\ UNCHANGED <<supVars, client, keys, manager, task, errlog, tally>>
  \/ AfterPage /\ Observe /\ UNCHANGED <<supVars, client, keys, manager, task, errlog, tally>>
  \/ P1MarkComplete /\ Observe /\ UNCHANGED <<supVars, client, keys, manager, task, errlog, tally>>
  \/ RunStopped /\ Observe /\ UNCHANGED <<supVars, client, keys, manager, task, errlog, tally>>
  \/ RunDetails /\ Observe /\ UNCHANGED <<supVars, client, keys, manager, task, errlog, tally>>
  \/ RunNoDetails /\ Observe /\ UNCHANGED <<supVars, client, keys, manager, task, errlog, tally>>
  \/ DetailsExit /\ Observe /\ UNCHANGED <<supVars, client, keys, manager, task, errlog, tally>>
  \/ PopFetch /\ Observe /\ UNCHANGED <<supVars, client, keys, manager, task, errlog, tally>>
  \/ FetchSuccess /\ Observe /\ UNCHANGED <<supVars, client, keys, manager, task, errlog, tally>>
  \/ RunCompleted /\ Observe /\ UNCHANGED <<supVars, client, keys, manager, task, errlog, tally>>
  \/ RunNotCompleted /\ Observe /\ UNCHANGED <<supVars, client, keys, manager, task, errlog, tally>>
  \/ SchedulerExit /\ Observe /\ UNCHANGED <<supVars, client, keys, manager, task, errlog, tally>>
  \/ RunFinally /\ Observe /\ UNCHANGED <<supVars, client, keys, manager, task, errlog, tally>>
  \/ ItemVisited /\ Observe /\ UNCHANGED <<supVars, client, keys, manager, task, errlog, tally>>
  \/ JobRescan /\ Observe /\ UNCHANGED <<supVars, client, keys, manager, task, errlog, tally>>
  \/ ScDoneColumns /\ Observe /\ UNCHANGED <<supVars, client, keys, manager, task, errlog, tally>>
  \/ ScEnter /\ Observe /\ UNCHANGED <<supVars, client, keys, manager, task, errlog, tally>>
  \/ ScNextColumn /\ Observe /\ UNCHANGED <<supVars, client, keys, manager, task, errlog, tally>>
  \/ ScAfter /\ Observe /\ UNCHANGED <<supVars, client, keys, manager, task, errlog, tally>>
  \/ ScDone /\ Observe /\ UNCHANGED <<supVars, client, keys, manager, task, errlog, tally>>

CollectSpec == InitWith(LongSection) /\ [][CollectNext]_vars

C38_CheckpointOnlyPastProcessedPages ==
  [][ \A c \in Cols : lastPage'[c] > lastPage[c]
        => hist.lfails = 0 /\ hist.left = 0 ]_vars

\* the Engine is inside _scheduled_crawl_links, the re-scan of recurring mode
InRescan ==
  \/ crawler.pc \in {"sc_col", "sc_after", "sc_done"}
  \/ crawler.pc \in CollectPcs /\ crawler.stop_on_duplicates
  \/ crawler.pc \in {"p2_loop", "p2_fetch"} /\ crawler.caller = "scheduled"

\* C39: a re-scan of recurring mode, from its start at 08:00 to its end, leaves the
\* persisted last_offset and the complete flag of every section as they are
C39_RescanKeepsCheckpoints ==
  [][ InRescan \/ (crawler.pc = "sched" /\ crawler'.pc = "sc_col")
        => lastPage' = lastPage /\ complete' = complete ]_vars

\* a re-scan has ended that found item 1, which Phase 1 had passed over, and
\* fetched it last; the checkpoints are those of Phase 1
C39_RescanFoundNewItem ==
  /\ crawler.pc = "sc_done"
  /\ Len(hist.completed) = 6 /\ hist.completed[6] = 1
  /\ lastPage = <<5, 1>>
  /\ \A c \in Cols : complete[c]

(***************************************************************************)
(* Phase 2 under fair scheduling: the steps of _crawl_details_phase are    *)
(* taken as long as one is possible; which result a fetch has is free.     *)
(***************************************************************************)
DetailsStep ==
  \/ DetailsExit /\ Observe /\ UNCHANGED <<supVars, client, keys, manager, task, errlog, tally>>
  \/ PopFetch /\ Observe /\ UNCHANGED <<supVars, client, keys, manager, task, errlog, tally>>
  \/ FetchSuccess /\ Observe /\ UNCHANGED <<supVars, client, keys, manager, task, errlog, tally>>
  \/ FetchSkip /\ Observe /\ UNCHANGED <<supVars, client, keys, manager, task, errlog, tally>>
  \/ FetchFailRetry /\ Observe /\ UNCHANGED <<supVars, client, keys, manager, task, errlog, tally>>
  \/ FetchFailTrip /\ Observe /\ UNCHANGED <<supVars, client, keys, manager, task, errlog, tally>>

DetailsSpec == FaultInit /\ [][FaultNext]_vars /\ WF_vars(DetailsStep)

\* C36: Phase 2 always terminates: whatever the results of the fetches, every call of
\* _crawl_details_phase returns, and no record is fetched after the 100th failure
\* in a row
C36_Phase2Terminates ==
  /\ (crawler.pc \in {"p2_loop", "p2_fetch"} ~> crawler.pc \notin {"p2_loop", "p2_fetch"})
  /\ [](crawler.pc \in {"p2_loop", "p2_fetch"}
          => crawler.consecutive_errors < MAX_CONSECUTIVE_ERRORS)

\* Phase 2 has returned through the breaker after a fetch had succeeded and set
\* the count back
C36_TrippedAfterSuccess ==
  /\ hist.tripInv /\ crawled # {}
  /\ crawler.pc = "completed"
  /\ queue # <<>>

(***************************************************************************)
(* Error records.  The Engine records an error with                        *)
(* BaseErrorManager.record_error; the store keeps the list `errors` and    *)
(* the count error_count, written by SpiderRedisManager.log_error.         *)
(***************************************************************************)
\* the records the list is trimmed to (LTRIM 0 99)
MAX_ERROR_LOG == 100
\* the errors of one behaviour
MaxErrors == 3
ErrorTypes == {"api_error", "request_error"}

Take(s, n) == SubSeq(s, 1, Min(Len(s), n))
\* log_error, lines 520-537: LPUSH, LTRIM 0 99, then HINCRBY error_count 1.
\* No code of the repository calls it.
log_error(log, e) ==
  IF client.up
  THEN [log EXCEPT !.errors = Take(<<e>> \o @, MAX_ERROR_LOG), !.error_count = @ + 1]
  ELSE log

\* BaseErrorManager.record_error, lines 44-59: the record goes to the logger and is
\* appended to the file <spider>_errors.log; the store is not written
record_error(t, u) ==
  /\ Len(errlog.file) < MaxErrors
  /\ errlog' = [errlog EXCEPT !.file = Append(@, [type |-> t, url |-> u]),
                              !.recorded = Append(@, [type |-> t, url |-> u])]
  /\ UNCHANGED <<storeVars, envVars, engineVars, supVars, client, keys, manager, task, tally>>

\* the Engine records errors; the store is reset in between
ErrorNext ==
  \/ \E t \in ErrorTypes, u \in 1..2 : record_error(t, u)
  \/ reset_state

ErrorSpec == Init /\ [][ErrorNext]_vars

\* C37: the store's error list holds the last 100 errors the Engine has recorded
\* since the last reset, newest first, and the error count is their number
C37_ErrorLogAndCounter ==
  /\ Len(errlog.errors) <= MAX_ERROR_LOG
  /\ errlog.errors = Take(Reverse(errlog.recorded), MAX_ERROR_LOG)
  /\ errlog.error_count = Len(errlog.recorded)

(***************************************************************************)
(* Stop and start again.  The Engine of the first run may be paused; it is *)
(* stopped by the signal or killed, and a second Engine is launched.  Both *)
(* are scheduled fairly.                                                   *)
(***************************************************************************)
RestartNext ==
  \/ StopNext
  \/ Launch /\ runs = 1 /\ Observe /\ UNCHANGED <<supVars, client, keys, manager, task, errlog, tally>>
  \/ Kill /\ Observe /\ UNCHANGED <<supVars, client, keys, manager, task, errlog, tally>>

RestartSpec == StopInit /\ [][RestartNext]_vars /\ WF_vars(EngineStep)

\* C40: a second Engine, started after the first was stopped and with the paused
\* flag of the first run still in the store, comes to its first list request or
\* pop, unless it is stopped or has ended before
C40_LaterRunNotBlocked ==
  (runs = 2 /\ crawler.alive /\ crawler.pc = "run" /\ paused)
    ~> (runs = 2 /\ (\/ ev.op \in {"list_request", "pop_fetch"}
                     \/ crawler.should_stop
                     \/ ~crawler.alive))

====
